---- MODULE Spec2Model ----
(***************************************************************************)
(* A model of docker-build-tool: the argument resolver                     *)
(* (BuildConfig._load_variables), the template evaluator                   *)
(* (ConfigurationParser), the recipe materializer                          *)
(* (BuildConfig._evaluate_variables) and the step orchestrator             *)
(* (build / _build_step / _copy_build_context) driving the Docker daemon.  *)
(*                                                                         *)
(* Python strings are sequences of one-character strings, so that parsing, *)
(* path normalisation and prefix tests are computed character by           *)
(* character.  A Python dict is a function whose DOMAIN is its key set.    *)
(***************************************************************************)
EXTENDS Integers, Sequences, FiniteSets, TLC

(***************************************************************************)
(* Strings                                                                 *)
(***************************************************************************)

\* str.startswith
StartsWith(s, p) == Len(s) >= Len(p) /\ SubSeq(s, 1, Len(p)) = p

\* the characters of s from position i (1-based) to the end: s[i-1:]
From(s, i) == SubSeq(s, i, Len(s))

\* the concatenation of a list of strings: "".join(list)
RECURSIVE Concat(_)
Concat(list) == IF list = <<>> THEN <<>> ELSE Head(list) \o Concat(Tail(list))

\* str.split(sep) for a one-character separator
RECURSIVE SplitAcc(_, _, _)
SplitAcc(s, sep, cur) ==
    IF s = <<>> THEN <<cur>>
    ELSE IF Head(s) = sep THEN <<cur>> \o SplitAcc(Tail(s), sep, <<>>)
    ELSE SplitAcc(Tail(s), sep, Append(cur, Head(s)))

Split(s, sep) == SplitAcc(s, sep, <<>>)

\* sep.join(list)
RECURSIVE JoinWith(_, _)
JoinWith(sep, list) ==
    IF list = <<>> THEN <<>>
    ELSE IF Len(list) = 1 THEN Head(list)
    ELSE Head(list) \o sep \o JoinWith(sep, Tail(list))

UpperLetters ==
    <<"A","B","C","D","E","F","G","H","I","J","K","L","M",
      "N","O","P","Q","R","S","T","U","V","W","X","Y","Z">>

LowerLetters ==
    <<"a","b","c","d","e","f","g","h","i","j","k","l","m",
      "n","o","p","q","r","s","t","u","v","w","x","y","z">>

Digits == <<"0","1","2","3","4","5","6","7","8","9">>

Range(f) == {f[i] : i \in DOMAIN f}

IndexOf(c, letters) == CHOOSE i \in DOMAIN letters : letters[i] = c

LowerChar(c) == IF c \in Range(UpperLetters) THEN LowerLetters[IndexOf(c, UpperLetters)] ELSE c

UpperChar(c) == IF c \in Range(LowerLetters) THEN UpperLetters[IndexOf(c, LowerLetters)] ELSE c

IsLetter(c) == c \in Range(UpperLetters) \cup Range(LowerLetters)

\* str.lower / str.upper
Lower(s) == [i \in DOMAIN s |-> LowerChar(s[i])]

Upper(s) == [i \in DOMAIN s |-> UpperChar(s[i])]

\* str.title: a letter that follows a non-letter is upper-cased, every other letter lower-cased
Title(s) ==
    [i \in DOMAIN s |->
        IF i = 1 \/ ~IsLetter(s[i - 1]) THEN UpperChar(s[i]) ELSE LowerChar(s[i])]

(***************************************************************************)
(* Values and exceptions                                                   *)
(***************************************************************************)

\* A YAML or command-line value: a string (t = "str", s its characters) or a structured
\* value (t = "list" or "dict", contents not modelled)
Str(s) == [t |-> "str", s |-> s]

ListValue == [t |-> "list", s |-> <<>>]

IsStructured(v) == v.t \in {"list", "dict"}

\* The outcome of a call: kind = "ok" and its value, or the class of the exception raised
\* and the name it carries (variable_name / function_name)
Ok(v) == [kind |-> "ok", val |-> v, name |-> <<>>]

Raise(kind, name) == [kind |-> kind, val |-> Str(<<>>), name |-> name]

(***************************************************************************)
(* Template Evaluator: docker_build/configuration/parser.py                *)
(***************************************************************************)

\* FUNCTIONS: the names of the built-in functions
FUNCTIONS == {<<"l","o","w","e","r">>, <<"u","p","p","e","r">>,
              <<"c","a","p","i","t","a","l","i","s","e">>}

\* FUNCTIONS[name](value)
ApplyFunction(name, value) ==
    IF name = <<"l","o","w","e","r">> THEN Lower(value)
    ELSE IF name = <<"u","p","p","e","r">> THEN Upper(value)
    ELSE Title(value)

\* the characters [a-zA-Z0-9_-] of the function-name pattern
IsNameChar(c) == IsLetter(c) \/ c \in Range(Digits) \/ c \in {"_", "-"}

\* position of the first brace of s, 0 when there is none
FirstBrace(s) ==
    IF \E i \in DOMAIN s : s[i] \in {"{", "}"}
    THEN CHOOSE i \in DOMAIN s : s[i] \in {"{", "}"} /\ \A j \in 1..(i - 1) : s[j] \notin {"{", "}"}
    ELSE 0

\* string.Formatter.parse, end of a replacement field: position in s of the brace closing a
\* field opened just before position i (nested braces are counted), 0 when unmatched
RECURSIVE FieldEnd(_, _, _)
FieldEnd(s, i, depth) ==
    IF i > Len(s) THEN 0
    ELSE IF s[i] = "{" THEN FieldEnd(s, i + 1, depth + 1)
    ELSE IF s[i] = "}" THEN (IF depth = 1 THEN i ELSE FieldEnd(s, i + 1, depth - 1))
    ELSE FieldEnd(s, i + 1, depth)

\* re.match("^([a-zA-Z0-9_-]+)\((.+)\)", expression): the function name is the leading run
\* of name characters, followed by "(", and the parameters run up to the last ")"
NameEnd(e) ==
    IF \E i \in DOMAIN e : ~IsNameChar(e[i])
    THEN (CHOOSE i \in DOMAIN e : ~IsNameChar(e[i]) /\ \A j \in 1..(i - 1) : IsNameChar(e[j])) - 1
    ELSE Len(e)

LastClose(e) ==
    IF \E i \in DOMAIN e : e[i] = ")"
    THEN CHOOSE i \in DOMAIN e : e[i] = ")" /\ \A j \in (i + 1)..Len(e) : e[j] # ")"
    ELSE 0

IsFunctionCall(e) ==
    /\ NameEnd(e) >= 1
    /\ NameEnd(e) < Len(e)
    /\ e[NameEnd(e) + 1] = "("
    /\ LastClose(e) >= NameEnd(e) + 3
    /\ \A j \in (NameEnd(e) + 2)..(LastClose(e) - 1) : e[j] # "\n"

FunctionName(e) == SubSeq(e, 1, NameEnd(e))

FunctionParameters(e) == SubSeq(e, NameEnd(e) + 2, LastClose(e) - 1)

\* string.Formatter.get_field for a field name without "." or "[": a name made of digits
\* is a positional index into args (None here: TypeError), any other name a key of properties
AllDigits(e) == e # <<>> /\ \A i \in DOMAIN e : e[i] \in Range(Digits)

\* the end of ConfigurationParser.parse: the single item as it is, or the join of the items
Joined(items) ==
    IF Len(items) = 1 THEN Ok(items[1])
    ELSE IF \E i \in DOMAIN items : IsStructured(items[i]) THEN Raise("TypeError", <<>>)
    ELSE Ok(Str(Concat([i \in DOMAIN items |-> items[i].s])))

RECURSIVE ParseFrom(_, _, _)
RECURSIVE EvaluateExpression(_, _)
RECURSIVE ExecuteFunction(_, _, _)

\* ConfigurationParser._execute_function
ExecuteFunction(name, parameters, properties) ==
    IF name \notin FUNCTIONS THEN Raise("InvalidFunctionReference", name)
    ELSE LET parsed == ParseFrom(parameters, properties, <<>>)
         IN IF parsed.kind # "ok" THEN parsed
            ELSE IF IsStructured(parsed.val) THEN Raise("AttributeError", <<>>)
            ELSE IF Len(Split(parsed.val.s, ",")) # 1 THEN Raise("FunctionExecutionError", name)
            ELSE Ok(Str(ApplyFunction(name, parsed.val.s)))

\* an evaluation that takes a variable that is not defined for the empty string
EvaluateExpressionLenient(expression, properties) ==
    IF IsFunctionCall(expression)
    THEN ExecuteFunction(FunctionName(expression), FunctionParameters(expression), properties)
    ELSE IF AllDigits(expression) THEN Raise("TypeError", expression)
    ELSE IF expression \notin DOMAIN properties THEN Ok(Str(<<>>))
    ELSE Ok(properties[expression])

\* ConfigurationParser._evaluate_expression (fields carry no format or conversion
\* specification: no modelled template has ":" or "!" between braces)
EvaluateExpression(expression, properties) ==
    IF IsFunctionCall(expression)
    THEN ExecuteFunction(FunctionName(expression), FunctionParameters(expression), properties)
    ELSE IF AllDigits(expression) THEN Raise("TypeError", expression)
    ELSE IF expression \notin DOMAIN properties
         THEN Raise("InvalidVariableReference", expression)
    ELSE Ok(properties[expression])

\* the loop of ConfigurationParser.parse over string.Formatter.parse(configuration), which
\* yields lazily: an error in a later part of the string is met after the earlier fields
\* have been evaluated.  items is parsed_configuration so far.
ParseFrom(s, properties, items) ==
    IF s = <<>> THEN Joined(items)
    ELSE LET k == FirstBrace(s)
         IN IF k = 0 THEN Joined(Append(items, Str(s)))
            ELSE IF s[k] = "}" /\ (k = Len(s) \/ s[k + 1] # "}") THEN Raise("ValueError", <<>>)
            ELSE IF k = Len(s) THEN Raise("ValueError", <<>>)
            ELSE IF s[k + 1] = s[k]
                 THEN ParseFrom(From(s, k + 2), properties, Append(items, Str(SubSeq(s, 1, k))))
            ELSE LET e == FieldEnd(s, k + 1, 1)
                     literal_text == SubSeq(s, 1, k - 1)
                     expression == SubSeq(s, k + 1, e - 1)
                     with_text == IF literal_text # <<>> THEN Append(items, Str(literal_text))
                                  ELSE items
                 IN IF e = 0 THEN Raise("ValueError", <<>>)
                    ELSE IF expression = <<>> THEN ParseFrom(From(s, e + 1), properties, with_text)
                    ELSE LET value == EvaluateExpression(expression, properties)
                         IN IF value.kind # "ok" THEN value
                            ELSE ParseFrom(From(s, e + 1), properties,
                                           Append(with_text, value.val))

\* ConfigurationParser.parse(configuration, properties)
Parse(configuration, properties) ==
    IF configuration = <<>> THEN Raise("ValueError", <<>>)
    ELSE ParseFrom(configuration, properties, <<>>)

(***************************************************************************)
(* Paths: posixpath as used by _copy_build_context                         *)
(***************************************************************************)

\* os.path.join(a, b)
PathJoin(a, b) ==
    IF StartsWith(b, <<"/">>) THEN b
    ELSE IF a = <<>> \/ a[Len(a)] = "/" THEN a \o b
    ELSE a \o <<"/">> \o b

\* the loop of os.path.normpath over the components of the path
RECURSIVE NormComps(_, _, _)
NormComps(comps, new_comps, initial_slashes) ==
    IF comps = <<>> THEN new_comps
    ELSE LET comp == Head(comps)
         IN IF comp \in {<<>>, <<".">>} THEN NormComps(Tail(comps), new_comps, initial_slashes)
            ELSE IF \/ comp # <<".", ".">>
                    \/ (initial_slashes = 0 /\ new_comps = <<>>)
                    \/ (new_comps # <<>> /\ new_comps[Len(new_comps)] = <<".", ".">>)
                 THEN NormComps(Tail(comps), Append(new_comps, comp), initial_slashes)
            ELSE IF new_comps # <<>>
                 THEN NormComps(Tail(comps), SubSeq(new_comps, 1, Len(new_comps) - 1),
                                initial_slashes)
            ELSE NormComps(Tail(comps), new_comps, initial_slashes)

\* os.path.normpath(path)
NormPath(path) ==
    IF path = <<>> THEN <<".">>
    ELSE LET initial_slashes ==
                 IF ~StartsWith(path, <<"/">>) THEN 0
                 ELSE IF StartsWith(path, <<"/", "/">>) /\ ~StartsWith(path, <<"/", "/", "/">>)
                      THEN 2
                 ELSE 1
             joined == JoinWith(<<"/">>, NormComps(Split(path, "/"), <<>>, initial_slashes))
             result == [i \in 1..initial_slashes |-> "/"] \o joined
         IN IF result = <<>> THEN <<".">> ELSE result

\* constants.py: BUILD_CONTEXT_DST_PATH = "/tmp/build-context"
BUILD_CONTEXT_DST_PATH ==
    <<"/","t","m","p","/","b","u","i","l","d","-","c","o","n","t","e","x","t">>

(***************************************************************************)
(* Documents: what yaml.load returns                                       *)
(***************************************************************************)

\* A node of a parsed document: a scalar holding a value, a list of nodes, or a dict from
\* keys to nodes
Scalar(v) == [t |-> "scalar", s |-> v, items |-> <<>>, d |-> <<>>]

ListNode(items) == [t |-> "list", s |-> Str(<<>>), items |-> items, d |-> <<>>]

DictNode(d) == [t |-> "dict", s |-> Str(<<>>), items |-> <<>>, d |-> d]

\* a document that yaml.load refuses with a ParserError: MainConfig._parse and
\* BuildConfig._parse do not get a parsed node from it
Malformed == [t |-> "malformed", s |-> Str(<<>>), items |-> <<>>, d |-> <<>>]

\* a YAML string scalar
Text(s) == Scalar(Str(s))

\* a YAML boolean scalar
Bool(b) == [t |-> "bool", s |-> IF b THEN <<"1">> ELSE <<>>]

\* key in node (node a dict)
Has(node, key) == key \in DOMAIN node.d

\* the Python value of a node: the scalar's value, or a structured value for a list or dict
NodeValue(node) == IF node.t = "scalar" THEN node.s ELSE [t |-> node.t, s |-> <<>>]

\* truth value of a Python value: empty strings and False are false, a non-empty list or dict
\* of the model and every other value is true
Truthy(v) == IF v.t \in {"str", "bool"} THEN v.s # <<>> ELSE TRUE

\* an exception in flight: its class, for an exception raised while handling another the
\* class of that one (cause), and the attribute path and name its message carries
NoError == [kind |-> "none", cause |-> "none", path |-> "", name |-> <<>>, exit_code |-> 0]

Exception(kind, cause, path, name) ==
    [kind |-> kind, cause |-> cause, path |-> path, name |-> name, exit_code |-> 0]

(***************************************************************************)
(* State                                                                   *)
(***************************************************************************)

VARIABLES
    recipe,            \* the recipe document as it is on disk (build_config_file_path)
    args_order,        \* the order in which config["ARGS"].items() yields the arguments
    main_config,       \* the main configuration document (a dict without keys when absent)
    build_arguments,   \* build(): the arguments given on the command line
    kwargs,            \* build(): tag, ignore_cache, keep_containers
    pc,                \* the statement build() is at
    config,            \* BuildConfig: parsed_config, evaluated in place
    variables,         \* BuildConfig._load_variables: variables
    arg_index,         \* _load_variables: position of the loop over the arguments
    mapping_index,     \* _load_variables: position of the loop over MAPPINGS, 0 outside it
    error,             \* the exception that is propagating, NoError when none
    step_index,        \* build(): position of the loop over config["STEPS"]
    from_image,        \* build(): from_image
    container,         \* _build_step: container, 0 for None
    build_context_populated,   \* _build_step: build_context_populated
    image_id,          \* _build_step: the value being returned while finally runs
    daemon,            \* the Docker daemon: its local images, the registry, its containers
    calls,             \* the calls made to the daemon, in order
    result,            \* what build() returned
    console            \* a ConsoleLogger: the stream it is fed, _buffer, and what it logged

inputs == <<recipe, args_order, main_config, build_arguments, kwargs>>

resolver == <<variables, arg_index, mapping_index>>

orchestrator == <<step_index, from_image, container, build_context_populated, image_id>>

vars == <<recipe, args_order, main_config, build_arguments, kwargs, pc, config, variables,
          arg_index, mapping_index, error, step_index, from_image, container,
          build_context_populated, image_id, daemon, calls, result, console>>

(***************************************************************************)
(* Argument Resolver: MainConfig._read_arguments, BuildConfig._load_variables *)
(***************************************************************************)

\* MainConfig._read_arguments (no modelled argument is marked ENCRYPTED)
ReadArgumentsOf(main) ==
    IF main = Malformed THEN [kind |-> "InvalidMainConfigurations", arguments |-> <<>>]
    ELSE IF ~Has(main, "ARGS") THEN [kind |-> "ok", arguments |-> <<>>]
    ELSE LET declared == main.d["ARGS"].d
         IN IF \E name \in DOMAIN declared : ~Has(declared[name], "VALUE")
            THEN [kind |-> "InvalidMainConfigurations", arguments |-> <<>>]
            ELSE [kind |-> "ok",
                  arguments |-> [name \in DOMAIN declared |-> NodeValue(declared[name].d["VALUE"])]]

\* a merge in which the main configuration replaces the command line
MergeArgumentsMainLast(main_arguments, cli_arguments) == main_arguments @@ cli_arguments

\* build(): dict(main_config.arguments.items() + build_arguments.items()), a later item
\* replacing an earlier one of the same name
MergeArguments(main_arguments, cli_arguments) == cli_arguments @@ main_arguments

\* checks of a declaration that accept an argument that is not required and has no default
\* when a value was given for it
DeclarationOutcomeValueSuffices(name, attributes, vs) ==
    LET required == Has(attributes, "REQUIRED") /\ Truthy(NodeValue(attributes.d["REQUIRED"]))
        defaulted == IF Has(attributes, "DEFAULT") /\ name \notin DOMAIN vs
                     THEN (name :> NodeValue(attributes.d["DEFAULT"])) @@ vs
                     ELSE vs
    IN IF name \notin DOMAIN defaulted THEN [kind |-> "MissingArgument", variables |-> vs]
       ELSE IF /\ Has(attributes, "CHOICES")
               /\ defaulted[name] \notin
                      {NodeValue(c) : c \in Range(attributes.d["CHOICES"].items)}
            THEN [kind |-> "InvalidArgumentValue", variables |-> defaulted]
       ELSE [kind |-> "ok", variables |-> defaulted]

\* _load_variables, lines 149-176: the checks of one argument declaration and its default
DeclarationOutcome(name, attributes, vs) ==
    LET required == Has(attributes, "REQUIRED") /\ Truthy(NodeValue(attributes.d["REQUIRED"]))
        defaulted == IF Has(attributes, "DEFAULT") /\ name \notin DOMAIN vs
                     THEN (name :> NodeValue(attributes.d["DEFAULT"])) @@ vs
                     ELSE vs
    IN IF required /\ name \notin DOMAIN vs THEN [kind |-> "MissingArgument", variables |-> vs]
       ELSE IF ~required /\ ~Has(attributes, "DEFAULT")
            THEN [kind |-> "MissingArgument", variables |-> vs]
       ELSE IF /\ Has(attributes, "CHOICES")
               /\ name \in DOMAIN defaulted
               /\ defaulted[name] \notin
                      {NodeValue(c) : c \in Range(attributes.d["CHOICES"].items)}
            THEN [kind |-> "InvalidArgumentValue", variables |-> defaulted]
       ELSE [kind |-> "ok", variables |-> defaulted]

\* argument_value in mapping_values: a key of the dict; a list or a dict cannot be hashed
IsMappingKey(argument_value, mapping_values) ==
    argument_value.t = "str" /\ argument_value.s \in DOMAIN mapping_values.d

\* a mapping that gives its default whenever it has one
MappedValueDefaultFirst(argument_value, mapping) ==
    IF Has(mapping, "DEFAULT")
    THEN NodeValue(mapping.d["DEFAULT"])
    ELSE NodeValue(mapping.d["VALUES"].d[argument_value.s])

\* _load_variables, lines 219-220: the value a mapping gives to its variable
MappedValue(argument_value, mapping) ==
    IF IsMappingKey(argument_value, mapping.d["VALUES"])
    THEN NodeValue(mapping.d["VALUES"].d[argument_value.s])
    ELSE NodeValue(mapping.d["DEFAULT"])

\* _load_variables, lines 183-220: one mapping of the argument name
MappingOutcome(name, mapping, vs) ==
    IF ~Has(mapping, "NAME") \/ ~Has(mapping, "VALUES")
    THEN [kind |-> "InvalidArgumentMapping", variables |-> vs]
    ELSE LET mapping_name == NodeValue(mapping.d["NAME"]).s
             argument_value == vs[name]
             mapping_values == mapping.d["VALUES"]
             has_default == Has(mapping, "DEFAULT") /\ NodeValue(mapping.d["DEFAULT"]).t # "none"
         IN IF IsStructured(argument_value) THEN [kind |-> "TypeError", variables |-> vs]
            ELSE IF ~IsMappingKey(argument_value, mapping_values) /\ ~has_default
                 THEN [kind |-> "InvalidArgumentMapping", variables |-> vs]
            ELSE [kind |-> "ok",
                  variables |->
                      (mapping_name :> MappedValue(argument_value, mapping)) @@ vs]

\* the name of a variable as characters
BUILD_CONTEXT_PATH ==
    <<"B","U","I","L","D","_","C","O","N","T","E","X","T","_","P","A","T","H">>

\* an injection that leaves a value that the name already has
InjectContextPathIfAbsent(vs) == vs @@ (BUILD_CONTEXT_PATH :> Str(BUILD_CONTEXT_DST_PATH))

\* _load_variables, line 232
InjectContextPath(vs) == (BUILD_CONTEXT_PATH :> Str(BUILD_CONTEXT_DST_PATH)) @@ vs

(***************************************************************************)
(* Recipe Materializer: BuildConfig._evaluate_variables                    *)
(***************************************************************************)

\* the order in which the keys of a dict are visited (CPython keeps one fixed order per
\* dict; the model visits the keys in this order)
KeyOrder ==
    <<"ARGS", "FROM", "TAG", "STEPS", "BUILDCONTEXT", "COPY", "RUN", "CONFIG",
      "SRC", "DST", "CMD", "ENTRYPOINT", "USER">>

RECURSIVE KeysIn(_, _)
KeysIn(order, d) ==
    IF order = <<>> THEN <<>>
    ELSE IF Head(order) \in DOMAIN d THEN <<Head(order)>> \o KeysIn(Tail(order), d)
    ELSE KeysIn(Tail(order), d)

\* "{}".format(index + 1)
IndexText == <<"1", "2", "3", "4", "5", "6", "7", "8", "9">>

\* the exceptions of the Template Evaluator that _evaluate_variables translates
TranslatedByMaterializer ==
    {"InvalidVariableReference", "InvalidFunctionReference", "FunctionExecutionError"}

RECURSIVE EvaluateChildren(_, _, _, _)
RECURSIVE EvaluateVariablesOf(_, _, _)

\* the loop of _evaluate_variables over the children of config_section that are still to be
\* visited: keys of a dict, positions of a list; parent_key is "" for None
EvaluateChildren(config_section, vs, parent_key, keys) ==
    IF keys = <<>> THEN [error |-> NoError, node |-> config_section]
    ELSE
      LET key == Head(keys)
          is_dict == config_section.t = "dict"
      IN IF is_dict /\ key = "ARGS" /\ parent_key = ""
         THEN EvaluateChildren(config_section, vs, parent_key, Tail(keys))
         ELSE
           LET current == IF is_dict THEN config_section.d[key] ELSE config_section.items[key]
               current_parent_key ==
                   parent_key
                   \o (IF parent_key = "" THEN "" ELSE IF is_dict THEN "." ELSE "[")
                   \o (IF is_dict THEN key ELSE IndexText[key])
                   \o (IF parent_key = "" \/ is_dict THEN "" ELSE "]")
               Replaced(n) == IF is_dict THEN [config_section EXCEPT !.d[key] = n]
                              ELSE [config_section EXCEPT !.items[key] = n]
           IN IF current.t \in {"dict", "list"}
              THEN LET sub == EvaluateVariablesOf(current, vs, current_parent_key)
                   IN IF sub.error # NoError THEN [error |-> sub.error, node |-> config_section]
                      ELSE EvaluateChildren(Replaced(sub.node), vs, parent_key, Tail(keys))
              ELSE IF ~Truthy(current.s)
                   THEN EvaluateChildren(config_section, vs, parent_key, Tail(keys))
              ELSE LET parsed == IF current.s.t # "str" THEN Raise("TypeError", <<>>)
                                 ELSE Parse(current.s.s, vs)
                   IN IF parsed.kind = "ok"
                      THEN EvaluateChildren(Replaced(Scalar(parsed.val)), vs, parent_key,
                                            Tail(keys))
                      ELSE IF parsed.kind \in TranslatedByMaterializer
                           THEN [error |-> Exception("InvalidBuildConfigurations", parsed.kind,
                                                     current_parent_key, parsed.name),
                                 node |-> config_section]
                      ELSE [error |-> Exception(parsed.kind, "none", "", parsed.name),
                            node |-> config_section]

\* BuildConfig._evaluate_variables(config_section, variables, parent_key)
EvaluateVariablesOf(config_section, vs, parent_key) ==
    EvaluateChildren(config_section, vs, parent_key,
                     IF config_section.t = "dict" THEN KeysIn(KeyOrder, config_section.d)
                     ELSE [i \in 1..Len(config_section.items) |-> i])

(***************************************************************************)
(* build(): loading the configuration                                      *)
(***************************************************************************)

\* the except clauses of build(): requests.ConnectionError, and the docker and requests
\* exceptions, are translated; every other exception propagates as it is
Translated(e) ==
    IF e.kind = "ConnectionError"
    THEN Exception("DockerDaemonConnectionException", e.kind, e.path, e.name)
    ELSE IF e.kind \in {"APIError", "ImageNotFound", "DockerException", "RequestException"}
         THEN Exception("DockerDaemonRequestException", e.kind, e.path, e.name)
    ELSE e

\* the arguments of the recipe: config["ARGS"]
DeclaredArguments == IF Has(config, "ARGS") THEN config.d["ARGS"].d ELSE <<>>

\* build(), lines 248-261, up to the loop of _load_variables: the main configuration is
\* read, its arguments are merged with those of the command line, and the merged
\* arguments are copied into variables
ReadArguments ==
    /\ pc = "read_arguments"
    /\ LET main == ReadArgumentsOf(main_config)
       IN IF main.kind # "ok"
          THEN /\ pc' = "failed"
               /\ error' = Exception(main.kind, "none", "", <<>>)
               /\ UNCHANGED variables
          ELSE IF recipe = Malformed
          THEN /\ pc' = "failed"
               /\ error' = Exception("InvalidBuildConfigurations", "ParserError", "", <<>>)
               /\ UNCHANGED variables
          ELSE /\ pc' = IF Has(config, "ARGS") /\ args_order # <<>> THEN "load_variables"
                        ELSE "inject"
               /\ variables' = MergeArguments(main.arguments, build_arguments)
               /\ UNCHANGED error
    /\ UNCHANGED <<inputs, console, config, arg_index, mapping_index, orchestrator, daemon, calls, result>>

\* what the loop of _load_variables does after the argument at arg_index, or after its
\* mapping at mapping_index, has been handled without an exception
NextArgument(attributes, done_mappings) ==
    IF Has(attributes, "MAPPINGS") /\ done_mappings < Len(attributes.d["MAPPINGS"].items)
    THEN /\ mapping_index' = done_mappings + 1
         /\ UNCHANGED <<arg_index, pc>>
    ELSE /\ mapping_index' = 0
         /\ arg_index' = arg_index + 1
         /\ pc' = IF arg_index < Len(args_order) THEN "load_variables" ELSE "inject"

\* _load_variables, lines 144-176: one argument declaration; every exception raised in the
\* loop is replaced by InvalidBuildConfigurations (lines 222-228)
DeclareArgument ==
    /\ pc = "load_variables"
    /\ mapping_index = 0
    /\ LET name == args_order[arg_index]
           attributes == DeclaredArguments[name]
           outcome == DeclarationOutcome(name, attributes, variables)
       IN /\ variables' = outcome.variables
          /\ IF outcome.kind # "ok"
             THEN /\ pc' = "failed"
                  /\ error' = Exception("InvalidBuildConfigurations", outcome.kind, "", name)
                  /\ UNCHANGED <<arg_index, mapping_index>>
             ELSE /\ NextArgument(attributes, 0)
                  /\ UNCHANGED error
    /\ UNCHANGED <<inputs, console, config, orchestrator, daemon, calls, result>>

\* _load_variables, lines 181-220: one mapping of the argument at arg_index
ApplyMapping ==
    /\ pc = "load_variables"
    /\ mapping_index > 0
    /\ LET name == args_order[arg_index]
           attributes == DeclaredArguments[name]
           mapping == attributes.d["MAPPINGS"].items[mapping_index]
           outcome == MappingOutcome(name, mapping, variables)
       IN /\ variables' = outcome.variables
          /\ IF outcome.kind # "ok"
             THEN /\ pc' = "failed"
                  /\ error' = Exception("InvalidBuildConfigurations", outcome.kind, "", name)
                  /\ UNCHANGED <<arg_index, mapping_index>>
             ELSE /\ NextArgument(attributes, mapping_index)
                  /\ UNCHANGED error
    /\ UNCHANGED <<inputs, console, config, orchestrator, daemon, calls, result>>

\* _load_variables, lines 230-234: the build context path is injected
InjectBuildContextPath ==
    /\ pc = "inject"
    /\ variables' = InjectContextPath(variables)
    /\ pc' = "evaluate"
    /\ UNCHANGED <<inputs, console, config, arg_index, mapping_index, error, orchestrator, daemon,
                   calls, result>>

\* BuildConfig.__init__, lines 108-110: the recipe is evaluated in place
EvaluateVariables ==
    /\ pc = "evaluate"
    /\ LET evaluated == EvaluateVariablesOf(config, variables, "")
       IN IF evaluated.error # NoError
          THEN /\ pc' = "failed"
               /\ error' = evaluated.error
               /\ UNCHANGED config
          ELSE /\ pc' = "prepare"
               /\ config' = evaluated.node
               /\ UNCHANGED error
    /\ UNCHANGED <<inputs, console, resolver, orchestrator, daemon, calls, result>>

(***************************************************************************)
(* The Docker daemon as DockerAPI uses it: docker_build/daemon/__init__.py  *)
(***************************************************************************)

\* Python None
None == [t |-> "none", s |-> <<>>]

\* truth value of a node: a non-empty list or dict, or a true scalar
TruthyNode(node) ==
    IF node.t = "list" THEN node.items # <<>>
    ELSE IF node.t = "dict" THEN DOMAIN node.d # {}
    ELSE node.s.t # "none" /\ Truthy(node.s)

\* a call to the daemon: the operation, the step of the plan and the part of _build_step
\* that made it, whether it succeeded, and its arguments
BlankCall ==
    [op |-> "", step |-> 0, phase |-> "", ok |-> TRUE, container |-> 0, image |-> <<>>,
     src |-> <<>>, dst |-> <<>>, instructions |-> <<>>, exports |-> {},
     tag |-> <<>>, cmd |-> Scalar(None), entrypoint |-> Scalar(None),
     clear_entrypoint |-> FALSE, command |-> <<>>, failed_at |-> 0, exit_code |-> 0]

\* str(image.id[7:19]) of the n-th image committed
ImageId(n) == <<"i", "m", "g", IndexText[n]>>

\* the step being built: config["STEPS"][step_index - 1]
Steps == config.d["STEPS"].items

step_config == Steps[step_index]

\* _build_step, lines 120-121: the step is compared by value with the first and the last
\* step of the plan
is_first_build_step == step_config = Steps[1]

is_last_build_step == step_config = Steps[Len(Steps)]

\* a step that goes on to the commit after a failure in its container
RaiseInStepAndCommit(e) ==
    /\ error' = e
    /\ pc' = IF container # 0 THEN "commit" ELSE "finally"

\* _build_step leaves its try block with exception e: the finally block runs next
RaiseInStep(e) ==
    /\ error' = e
    /\ pc' = "finally"

\* build(), lines 263-282: FROM is checked, the tag of the command line replaces the TAG of
\* the recipe, the loop over the steps starts
PrepareBuild ==
    /\ pc = "prepare"
    /\ IF ~Has(config, "FROM")
       THEN /\ pc' = "failed"
            /\ error' = Exception("InvalidBuildConfigurations", "none", "FROM", <<>>)
            /\ UNCHANGED <<config, from_image, step_index>>
       ELSE LET tagged == IF kwargs.tag # <<>>
                          THEN [config EXCEPT !.d = ("TAG" :> Text(kwargs.tag)) @@ @]
                          ELSE config
            IN /\ config' = tagged
               /\ from_image' = NodeValue(config.d["FROM"]).s
               /\ IF ~Has(config, "STEPS")
                  THEN /\ pc' = "failed"
                       /\ error' = Exception("KeyError", "none", "STEPS", <<>>)
                       /\ UNCHANGED step_index
                  ELSE /\ pc' = IF Len(config.d["STEPS"].items) > 0 THEN "create" ELSE "return"
                       /\ step_index' = 1
                       /\ UNCHANGED error
    /\ UNCHANGED <<inputs, console, resolver, container, build_context_populated, image_id, daemon,
                   calls, result>>

\* _build_step, lines 123-129, and DockerAPI.create_container: the image is looked up, pulled
\* when the cache is ignored, the container created and started.  The daemon may refuse the
\* creation or the start.
CreateContainer ==
    /\ pc = "create"
    /\ \E daemon_says \in {"ok", "create fails", "start fails"} :
         LET should_ignore_cache == is_first_build_step /\ kwargs.ignore_cache
             Made(op, ok) == [BlankCall EXCEPT !.op = op, !.step = step_index,
                                               !.phase = "create", !.image = from_image,
                                               !.ok = ok]
             local == from_image \in DOMAIN daemon.images
             pulled == from_image \in DOMAIN daemon.registry
             images == IF should_ignore_cache /\ pulled
                       THEN (from_image :> daemon.registry[from_image]) @@ daemon.images
                       ELSE daemon.images
             lookup == <<Made("get_image", local)>>
             pull == <<Made("pull", pulled)>>
             new == daemon.created + 1
             create == [Made("create", daemon_says # "create fails") EXCEPT
                           !.container = new,
                           !.clear_entrypoint = TruthyNode(images[from_image].Entrypoint)]
             start == [Made("start", daemon_says = "ok") EXCEPT !.container = new]
         IN IF ~local
            THEN /\ daemon_says = "ok"
                 /\ calls' = calls \o lookup
                 /\ RaiseInStep(Exception("ImageNotFound", "none", "", from_image))
                 /\ UNCHANGED <<daemon, container>>
            ELSE IF should_ignore_cache /\ ~pulled
            THEN /\ daemon_says = "ok"
                 /\ calls' = calls \o lookup \o pull
                 /\ RaiseInStep(Exception("DockerImageNotFound", "none", "", from_image))
                 /\ UNCHANGED <<daemon, container>>
            ELSE IF daemon_says = "create fails"
            THEN /\ calls' = calls \o lookup
                              \o (IF should_ignore_cache THEN pull ELSE lookup) \o <<create>>
                 /\ daemon' = [daemon EXCEPT !.images = images]
                 /\ RaiseInStep(Exception("APIError", "none", "", <<>>))
                 /\ UNCHANGED container
            ELSE /\ calls' = calls \o lookup
                              \o (IF should_ignore_cache THEN pull ELSE lookup)
                              \o <<create, start>>
                 /\ daemon' = [daemon EXCEPT !.images = images,
                                             !.created = new,
                                             !.containers = @ \cup {new}]
                 /\ IF daemon_says = "start fails"
                    THEN /\ RaiseInStep(Exception("APIError", "none", "", <<>>))
                         /\ UNCHANGED container
                    ELSE /\ container' = new
                         /\ pc' = "context"
                         /\ UNCHANGED error
    /\ UNCHANGED <<inputs, console, config, resolver, step_index, from_image, build_context_populated,
                   image_id, result>>

(***************************************************************************)
(* _copy_build_context and the body of _build_step                         *)
(***************************************************************************)

\* os.path.join(BUILD_CONTEXT_DST_PATH, "")
ContextRoot == PathJoin(BUILD_CONTEXT_DST_PATH, <<>>)

\* a destination that is joined to the context root as it is declared
ContextDestinationAsDeclared(copy_details) ==
    PathJoin(BUILD_CONTEXT_DST_PATH,
             IF Has(copy_details, "DST") THEN NodeValue(copy_details.d["DST"]).s ELSE <<>>)

\* _copy_build_context, lines 60-66: the destination of one entry of a BUILDCONTEXT list
ContextDestination(copy_details) ==
    LET declared == NodeValue(copy_details.d["DST"]).s
        dst == IF ~Has(copy_details, "DST") THEN <<>>
               ELSE IF StartsWith(declared, <<"/">>) THEN <<".">> \o declared
               ELSE declared
    IN PathJoin(BUILD_CONTEXT_DST_PATH, dst)

\* _copy_build_context, line 68: the test an entry must pass to be copied
InsideContext(dst) == StartsWith(NormPath(dst), BUILD_CONTEXT_DST_PATH)

\* a call of DockerAPI.copy
CopyCall(phase, src, dst, ok) ==
    [BlankCall EXCEPT !.op = "copy", !.step = step_index, !.phase = phase, !.ok = ok,
                      !.container = container, !.src = src, !.dst = dst]

\* _copy_build_context, lines 58-76: the entries from position i on are checked and copied
\* one after the other; the copy of entry fail_at is refused by the daemon (0: none is)
RECURSIVE CopyContextEntries(_, _, _)
CopyContextEntries(entries, i, fail_at) ==
    IF i > Len(entries) THEN [error |-> NoError, made |-> <<>>]
    ELSE LET dst == ContextDestination(entries[i])
             call == CopyCall("context", NodeValue(entries[i].d["SRC"]).s, dst, i # fail_at)
         IN IF ~InsideContext(dst)
            THEN [error |-> Exception("InvalidBuildConfigurations", "none", "BUILDCONTEXT",
                                      NodeValue(entries[i].d["DST"]).s),
                  made |-> <<>>]
            ELSE IF i = fail_at
                 THEN [error |-> Exception("APIError", "none", "", <<>>), made |-> <<call>>]
            ELSE LET rest == CopyContextEntries(entries, i + 1, fail_at)
                 IN [error |-> rest.error, made |-> <<call>> \o rest.made]

\* a copy of the build context that never reports that files were copied
FilesCopiedNever(step) == FALSE

\* _copy_build_context, lines 40-46 and 85: files_copied, which is returned
FilesCopied(step) == Has(step, "BUILDCONTEXT")

\* _copy_build_context(docker_api, container, step_config)
CopyBuildContextOf(step, fail_at) ==
    IF ~Has(step, "BUILDCONTEXT") THEN [error |-> NoError, made |-> <<>>]
    ELSE LET context == step.d["BUILDCONTEXT"]
         IN IF context.t = "scalar" /\ context.s.t = "str"
            THEN [error |-> IF fail_at = 1 THEN Exception("APIError", "none", "", <<>>)
                            ELSE NoError,
                  made |-> <<CopyCall("context", context.s.s, ContextRoot, fail_at # 1)>>]
            ELSE IF context.t = "list" THEN CopyContextEntries(context.items, 1, fail_at)
            ELSE [error |-> Exception("InvalidBuildConfigurations", "none", "BUILDCONTEXT", <<>>),
                  made |-> <<>>]

\* the number of copies a BUILDCONTEXT or COPY declaration of the step asks for
Copies(step, key) ==
    IF ~Has(step, key) THEN 0
    ELSE IF step.d[key].t = "list" THEN Len(step.d[key].items)
    ELSE 1

\* _build_step, lines 131-132
CopyBuildContext ==
    /\ pc = "context"
    /\ \E fail_at \in 0..Copies(step_config, "BUILDCONTEXT") :
         LET copied == CopyBuildContextOf(step_config, fail_at)
         IN /\ fail_at # 0 => copied.error.kind = "APIError"
            /\ calls' = calls \o copied.made
            /\ IF copied.error # NoError
               THEN /\ RaiseInStep(copied.error)
                    /\ UNCHANGED build_context_populated
               ELSE /\ build_context_populated' = FilesCopied(step_config)
                    /\ pc' = "files"
                    /\ UNCHANGED error
    /\ UNCHANGED <<inputs, console, config, resolver, step_index, from_image, container, image_id,
                   daemon, result>>

\* _build_step, lines 134-142: the COPY entries from position i on
RECURSIVE CopyFileEntries(_, _, _)
CopyFileEntries(entries, i, fail_at) ==
    IF i > Len(entries) THEN <<>>
    ELSE <<CopyCall("files", NodeValue(entries[i].d["SRC"]).s, NodeValue(entries[i].d["DST"]).s,
                    i # fail_at)>>
         \o (IF i = fail_at THEN <<>> ELSE CopyFileEntries(entries, i + 1, fail_at))

CopyFiles ==
    /\ pc = "files"
    /\ \E fail_at \in 0..Copies(step_config, "COPY") :
         /\ calls' = calls \o (IF Has(step_config, "COPY")
                               THEN CopyFileEntries(step_config.d["COPY"].items, 1, fail_at)
                               ELSE <<>>)
         /\ IF fail_at # 0
            THEN RaiseInStep(Exception("APIError", "none", "", <<>>))
            ELSE /\ pc' = "run"
                 /\ UNCHANGED error
    /\ UNCHANGED <<inputs, console, config, resolver, orchestrator, daemon, result>>

\* "{value}".format(value=...) of a value that is not a list or a dict
ValueText(value) ==
    IF value.t = "str" THEN value.s
    ELSE IF value.t = "bool" THEN (IF value.s THEN <<"T","r","u","e">> ELSE <<"F","a","l","s","e">>)
    ELSE IF value.t = "none" THEN <<"N","o","n","e">>
    ELSE <<>>

\* DockerAPI.run_command, line 403: "export {name}=\"{value}\""
Export(name, value) ==
    <<"e","x","p","o","r","t"," ">> \o name \o <<"=", "\"">> \o ValueText(value) \o <<"\"">>

\* the order in which "for name in variables" yields the names: CPython keeps one order per
\* dict, which the program does not choose
RECURSIVE IterationOrder(_)
IterationOrder(names) ==
    IF names = {} THEN <<>>
    ELSE LET name == CHOOSE n \in names : TRUE
         IN <<name>> \o IterationOrder(names \ {name})

\* an export for a variable whatever its value is
ExportOfAny(name, value) == <<Export(name, value)>>

\* DockerAPI.run_command, lines 395-405: what one variable adds to environment_variables,
\* nothing when its value is a list or a dict
ExportOf(name, value) == IF IsStructured(value) THEN <<>> ELSE <<Export(name, value)>>

\* DockerAPI.run_command, lines 392-405: environment_variables
RECURSIVE EnvironmentVariables(_, _)
EnvironmentVariables(vs, names) ==
    IF names = <<>> THEN <<>>
    ELSE ExportOf(Head(names), vs[Head(names)]) \o EnvironmentVariables(vs, Tail(names))

\* the exports of a call of run_command with variables=vs
Exports(vs) == EnvironmentVariables(vs, IterationOrder(DOMAIN vs))

\* execute_instructions, line 360: "; ".join(["set -e"] + variable_list + instruction_list)
ShellCommand(variable_list, instruction_list) ==
    JoinWith(<<";", " ">>, <<(<<"s","e","t"," ","-","e">>)>> \o variable_list \o instruction_list)

\* DockerAPI.run_command, line 410: the command as a list of instructions
Instructions(command) ==
    IF command.t = "list" THEN [i \in DOMAIN command.items |-> NodeValue(command.items[i]).s]
    ELSE <<command.s.s>>

\* a call of DockerAPI.run_command: /bin/sh -c "set -e; <exports>; <instructions>", which
\* the shell leaves with the status of the first instruction that fails (failed_at, 0 when
\* none does)
ExecCall(phase, instructions, exports, failed_at, exit_code) ==
    [BlankCall EXCEPT !.op = "exec", !.step = step_index, !.phase = phase,
                      !.ok = exit_code = 0,
                      !.container = container, !.instructions = instructions,
                      !.exports = Range(exports),
                      !.command = ShellCommand(exports, instructions),
                      !.failed_at = failed_at, !.exit_code = exit_code]

\* the exit statuses of a shell in which an instruction failed
FailureExitCodes == {1, 2}

\* the outcomes of the shell for a list of instructions: none fails and the status is 0, or
\* one of them fails with a status that is not 0
ShellOutcomes(instruction_list) ==
    {[failed_at |-> 0, exit_code |-> 0]}
    \cup [failed_at : DOMAIN instruction_list, exit_code : FailureExitCodes]

\* the slice text[:n]
FirstCharacters(text, n) == SubSeq(text, 1, IF Len(text) < n THEN Len(text) ELSE n)

\* execute_instructions, lines 379-381: the instruction that the message names
NamedInstruction(instruction_list, failed_at) ==
    IF Len(instruction_list[1]) <= 30 /\ Len(instruction_list) = 1
    THEN instruction_list[1]
    ELSE FirstCharacters(instruction_list[1], 30) \o <<".", ".", ".">>

\* execute_instructions, lines 374-384: the exception for an exit code that is not 0
CommandExecutionError(instruction_list, failed_at, exit_code) ==
    [Exception("CommandExecutionError", "none", "",
               NamedInstruction(instruction_list, failed_at))
        EXCEPT !.exit_code = exit_code]

\* _build_step, lines 144-152: the RUN instructions, which exit with status 0 or not
RunCommands ==
    /\ pc = "run"
    /\ IF ~Has(step_config, "RUN")
       THEN /\ pc' = "cleanup"
            /\ UNCHANGED <<calls, error>>
       ELSE LET instructions == Instructions(step_config.d["RUN"])
            IN \E shell \in ShellOutcomes(instructions) :
                 /\ calls' = Append(calls, ExecCall("run", instructions, Exports(variables),
                                                    shell.failed_at, shell.exit_code))
                 /\ IF shell.exit_code # 0
                    THEN RaiseInStep(CommandExecutionError(instructions, shell.failed_at,
                                                           shell.exit_code))
                    ELSE /\ pc' = "cleanup"
                         /\ UNCHANGED error
    /\ UNCHANGED <<inputs, console, config, resolver, orchestrator, daemon, result>>

\* "rm -rf {dst}".format(dst=BUILD_CONTEXT_DST_PATH)
RemoveContextInstruction == <<"r","m"," ","-","r","f"," ">> \o BUILD_CONTEXT_DST_PATH

\* _build_step, lines 154-160: the build context is removed from the container
CleanBuildContext ==
    /\ pc = "cleanup"
    /\ IF ~build_context_populated
       THEN /\ pc' = "commit"
            /\ UNCHANGED <<calls, error>>
       ELSE \E shell \in ShellOutcomes(<<RemoveContextInstruction>>) :
              /\ calls' = Append(calls, ExecCall("cleanup", <<RemoveContextInstruction>>, <<>>,
                                                 shell.failed_at, shell.exit_code))
              /\ IF shell.exit_code # 0
                 THEN RaiseInStep(CommandExecutionError(<<RemoveContextInstruction>>,
                                                        shell.failed_at, shell.exit_code))
                 ELSE /\ pc' = "commit"
                      /\ UNCHANGED error
    /\ UNCHANGED <<inputs, console, config, resolver, orchestrator, daemon, result>>

\* a commit that always takes the command of the image the container was created from
WithBaseCommandAlways(configs, image_configs) ==
    [configs EXCEPT !.d = ("CMD" :> image_configs.Cmd) @@ @]

\* _build_step, lines 170-180: the configuration of the image to commit; the command and
\* the entry point that the step does not declare are taken from the image the container
\* was created from
WithBaseCommand(configs, image_configs) ==
    IF Has(configs, "CMD") THEN configs
    ELSE [configs EXCEPT !.d = ("CMD" :> (IF TruthyNode(image_configs.Cmd)
                                          THEN image_configs.Cmd
                                          ELSE ListNode(<<>>))) @@ @]

\* a commit that leaves the entry point of the container, which create_container cleared,
\* in the image of a step that declares none
WithContainerEntrypoint(configs, image_configs) ==
    IF Has(configs, "ENTRYPOINT") THEN configs
    ELSE [configs EXCEPT !.d = ("ENTRYPOINT" :> (IF TruthyNode(image_configs.Entrypoint)
                                                 THEN ListNode(<<>>)
                                                 ELSE image_configs.Entrypoint)) @@ @]

\* _build_step, lines 179-180: the entry point that the step does not declare is the one of
\* the image the container was created from
WithBaseEntrypoint(configs, image_configs) ==
    IF Has(configs, "ENTRYPOINT") THEN configs
    ELSE [configs EXCEPT !.d = ("ENTRYPOINT" :> image_configs.Entrypoint) @@ @]

\* catalog.py, Configuration.validate_value for the options of the model: CMD and ENTRYPOINT
\* are a list, a string or None, USER is a string
IsValidOption(key, value) ==
    IF key \in {"CMD", "ENTRYPOINT"}
    THEN value.t = "list" \/ (value.t = "scalar" /\ value.s.t \in {"str", "none"})
    ELSE value.t = "scalar" /\ value.s.t = "str"

\* a commit that never tags
CommitTagNever == <<>>

\* _build_step, line 186: the tag the image is committed with, empty for None
CommitTag ==
    IF is_last_build_step /\ Has(config, "TAG") THEN NodeValue(config.d["TAG"]).s ELSE <<>>

\* _build_step, lines 162-192, and DockerAPI.commit_image.  step_config.get("CONFIG", {})
\* is the CONFIG dict of the step itself when the step has one: the command and entry point
\* are then written into the plan.
CommitImage ==
    /\ pc = "commit"
    /\ \E daemon_says \in {"ok", "commit fails"} :
         LET image_configs == daemon.images[from_image]
             declared == IF Has(step_config, "CONFIG") THEN step_config.d["CONFIG"]
                         ELSE DictNode(<<>>)
             configs == WithBaseEntrypoint(WithBaseCommand(declared, image_configs),
                                           image_configs)
             valid == \A key \in DOMAIN configs.d : IsValidOption(key, configs.d[key])
             new == daemon.committed + 1
             attrs == [Cmd |-> configs.d["CMD"], Entrypoint |-> configs.d["ENTRYPOINT"]]
             commit == [BlankCall EXCEPT !.op = "commit", !.step = step_index,
                                         !.phase = "commit", !.ok = daemon_says = "ok",
                                         !.container = container, !.image = ImageId(new),
                                         !.tag = CommitTag, !.cmd = configs.d["CMD"],
                                         !.entrypoint = configs.d["ENTRYPOINT"]]
             lookup == [BlankCall EXCEPT !.op = "get_image", !.step = step_index,
                                         !.phase = "commit", !.image = from_image]
         IN /\ config' = IF Has(step_config, "CONFIG")
                         THEN [config EXCEPT
                                  !.d["STEPS"].items[step_index].d["CONFIG"] = configs]
                         ELSE config
            /\ pc' = "finally"
            /\ IF ~valid
               THEN /\ daemon_says = "ok"
                    /\ calls' = Append(calls, lookup)
                    /\ error' = Exception("TypeError", "none", "", <<>>)
                    /\ UNCHANGED <<daemon, image_id>>
               ELSE /\ calls' = calls \o <<lookup, commit>>
                    /\ IF daemon_says # "ok"
                       THEN /\ error' = Exception("APIError", "none", "", <<>>)
                            /\ UNCHANGED <<daemon, image_id>>
                       ELSE /\ daemon' =
                                 [daemon EXCEPT
                                     !.committed = new,
                                     !.images = (IF CommitTag # <<>> THEN CommitTag :> attrs
                                                 ELSE <<>>)
                                                @@ (ImageId(new) :> attrs) @@ @]
                            /\ image_id' = ImageId(new)
                            /\ UNCHANGED error
    /\ UNCHANGED <<inputs, console, resolver, step_index, from_image, container,
                   build_context_populated, result>>

\* a finally block that removes the container only when no exception is propagating
ShouldRemoveContainerOnSuccess == container # 0 /\ ~kwargs.keep_containers /\ error = NoError

\* _build_step, line 197: if container and should_remove_container
ShouldRemoveContainer == container # 0 /\ ~kwargs.keep_containers

\* a step whose exception is dropped when its finally block is over
PropagatesNever(e) == FALSE

\* _build_step, lines 194-200: an exception that is propagating when the finally block is
\* over leaves _build_step and build()
Propagates(e) == e # NoError

\* a loop over the steps in which every step starts from the image of the recipe
FromImageOfRecipe == from_image

\* build(), lines 285-294: from_image = _build_step(...), the image id that the step returned
FromImageOfNextStep == image_id

\* _build_step, lines 194-200, and the way the step is left: the container is removed
\* unless it is to be kept, and then either the exception propagates out of build(), an
\* exception of the removal taking the place of the one that was propagating, or the image
\* id is returned and becomes the from_image of the next step
FinallyRemoveContainer ==
    /\ pc = "finally"
    /\ \E daemon_says \in {"ok", "remove fails"} :
         LET removing == ShouldRemoveContainer
             remove == [BlankCall EXCEPT !.op = "remove", !.step = step_index,
                                         !.phase = "remove", !.ok = daemon_says = "ok",
                                         !.container = container]
             leaving == IF removing /\ daemon_says # "ok"
                        THEN Exception("APIError", error.kind, "", <<>>)
                        ELSE error
         IN /\ removing \/ daemon_says = "ok"
            /\ calls' = IF removing THEN Append(calls, remove) ELSE calls
            /\ daemon' = IF removing /\ daemon_says = "ok"
                         THEN [daemon EXCEPT !.containers = @ \ {container}]
                         ELSE daemon
            /\ IF Propagates(leaving)
               THEN /\ pc' = "failed"
                    /\ error' = Translated(leaving)
                    /\ UNCHANGED <<from_image, step_index>>
               ELSE /\ pc' = IF step_index < Len(Steps) THEN "create" ELSE "return"
                    /\ from_image' = FromImageOfNextStep
                    /\ step_index' = step_index + 1
                    /\ UNCHANGED error
    /\ container' = 0
    /\ build_context_populated' = FALSE
    /\ image_id' = <<>>
    /\ UNCHANGED <<inputs, console, config, resolver, result>>

\* build(), line 297: return from_image, build_config.config["TAG"]
Return ==
    /\ pc = "return"
    /\ IF Has(config, "TAG")
       THEN /\ pc' = "done"
            /\ result' = [image |-> from_image, tag |-> NodeValue(config.d["TAG"]).s]
            /\ UNCHANGED error
       ELSE /\ pc' = "failed"
            /\ error' = Exception("KeyError", "none", "TAG", <<>>)
            /\ UNCHANGED result
    /\ UNCHANGED <<inputs, console, config, resolver, orchestrator, daemon, calls>>

(***************************************************************************)
(* The inputs of the model                                                 *)
(***************************************************************************)

\* the strings of the modelled recipes, arguments and images
base_1 == <<"b","a","s","e",":","1">>

out_1 == <<"o","u","t",":","1">>

cli_2 == <<"c","l","i",":","2">>

ENV == <<"E","N","V">>

TIER == <<"T","I","E","R">>

prod == <<"p","r","o","d">>

dev == <<"d","e","v">>

qa == <<"q","a">>

live == <<"l","i","v","e">>

echo_ENV == <<"e","c","h","o"," ","{","E","N","V","}">>

echo_prod == <<"e","c","h","o"," ","p","r","o","d">>

echo_TIER == <<"e","c","h","o"," ","{","T","I","E","R","}">>

echo_NOPE == <<"e","c","h","o"," ","{","N","O","P","E","}">>

call_foo_ENV == <<"{","f","o","o","(","{","E","N","V","}",")","}">>

make == <<"m","a","k","e">>

make_install == <<"m","a","k","e"," ","i","n","s","t","a","l","l">>

ctx == <<"c","t","x">>

user == <<"b","u","i","l","d","e","r">>

src_a == <<"a">>

src_b == <<"b">>

sub_dir == <<"s","u","b","/","d","i","r","/">>

opt_a == <<"/","o","p","t","/","a">>

up_x == <<".",".","/","x">>

foo == <<"f","o","o">>

bin_bash == <<"/","b","i","n","/","b","a","s","h">>

entry == <<"/","e","n","t","r","y">>

bin_zsh == <<"/","b","i","n","/","z","s","h">>

\* the longest plan of the model
MaxSteps == 2

\* an entry {SRC, DST} of a BUILDCONTEXT or COPY list, and one without DST
Entry(src, dst) == DictNode(("SRC" :> Text(src)) @@ ("DST" :> Text(dst)))

EntryWithoutDst(src) == DictNode("SRC" :> Text(src))

\* {RUN: "echo {ENV}"}
StepRun == DictNode("RUN" :> Text(echo_ENV))

\* {BUILDCONTEXT: "ctx", RUN: ["make", "make install"], CONFIG: {USER: "builder"}}
StepContext ==
    DictNode(("BUILDCONTEXT" :> Text(ctx))
             @@ ("RUN" :> ListNode(<<Text(make), Text(make_install)>>))
             @@ ("CONFIG" :> DictNode("USER" :> Text(user))))

\* {BUILDCONTEXT: [{SRC: "a", DST: "sub/dir/"}, {SRC: "b"}]}
StepContextList ==
    DictNode("BUILDCONTEXT" :> ListNode(<<Entry(src_a, sub_dir), EntryWithoutDst(src_b)>>))

\* {COPY: [{SRC: "a", DST: "/opt/a"}], CONFIG: {CMD: ["foo"]}}
StepCopy ==
    DictNode(("COPY" :> ListNode(<<Entry(src_a, opt_a)>>))
             @@ ("CONFIG" :> DictNode("CMD" :> ListNode(<<Text(foo)>>))))

\* {BUILDCONTEXT: [{SRC: "a", DST: "sub/dir/"}, {SRC: "b", DST: "../x"}]}
StepEscape ==
    DictNode("BUILDCONTEXT" :> ListNode(<<Entry(src_a, sub_dir), Entry(src_b, up_x)>>))

\* {BUILDCONTEXT: {SRC: "a", DST: "sub/dir/"}}: neither a string nor a list
StepContextInvalid == DictNode("BUILDCONTEXT" :> Entry(src_a, sub_dir))

StepShapes == {StepRun, StepContext, StepContextList, StepCopy}

\* every plan of at most MaxSteps steps
Plans == UNION {[1..n -> StepShapes] : n \in 1..MaxSteps}

\* ARGS: {ENV: {DEFAULT: "prod"}}
ArgsEnv == DictNode(ENV :> DictNode("DEFAULT" :> Text(prod)))

\* ARGS: {ENV: {DEFAULT: "prod", MAPPINGS: [{NAME: "TIER", VALUES: {prod: "live"}}]}}
ArgsEnvTier ==
    DictNode(ENV :> DictNode(
        ("DEFAULT" :> Text(prod))
        @@ ("MAPPINGS" :> ListNode(<<DictNode(("NAME" :> Text(TIER))
                                             @@ ("VALUES" :> DictNode(prod :> Text(live))))>>))))

\* a recipe {FROM: "base:1", ARGS: args, STEPS: steps, TAG: tag}, TAG left out when empty
Recipe(args, steps, tag) ==
    DictNode(("FROM" :> Text(base_1)) @@ ("ARGS" :> args) @@ ("STEPS" :> ListNode(steps))
             @@ (IF tag # <<>> THEN "TAG" :> Text(tag) ELSE <<>>))

\* the recipe of the end-to-end scenario:
\* {FROM: "base:1", ARGS: {ENV: {DEFAULT: "prod"}}, STEPS: [{RUN: "echo {ENV}"}], TAG: "out:1"}
ScenarioRecipe == Recipe(ArgsEnv, <<StepRun>>, out_1)

\* recipes with a configuration error, with a mapping, and with an escaping build context
RecipeWithoutFrom ==
    DictNode(("ARGS" :> ArgsEnv) @@ ("STEPS" :> ListNode(<<StepRun>>)) @@ ("TAG" :> Text(out_1)))

RecipeUndefined == Recipe(ArgsEnv, <<StepRun, DictNode("RUN" :> Text(echo_NOPE))>>, out_1)

RecipeMapped == Recipe(ArgsEnvTier, <<DictNode("RUN" :> Text(echo_TIER))>>, out_1)

RecipeEscape == Recipe(ArgsEnv, <<StepRun, StepEscape>>, out_1)

RecipeContextInvalid == Recipe(ArgsEnv, <<StepContextInvalid>>, out_1)

\* ARGS: {ENV: {DEFAULT: "prod", CHOICES: ["prod"]}} and ARGS: {ENV: {}}
RecipeChoices ==
    Recipe(DictNode(ENV :> DictNode(("DEFAULT" :> Text(prod))
                                    @@ ("CHOICES" :> ListNode(<<Text(prod)>>)))),
           <<StepRun>>, out_1)

RecipeWithoutDefault == Recipe(DictNode(ENV :> DictNode(<<>>)), <<StepRun>>, out_1)

RecipeUnknownFunction == Recipe(ArgsEnv, <<DictNode("RUN" :> Text(call_foo_ENV))>>, out_1)

\* main configurations: none, ARGS: {ENV: {VALUE: "qa"}}, and ARGS: {ENV: {}}
NoMainConfig == DictNode(<<>>)

MainConfigEnv == DictNode("ARGS" :> DictNode(ENV :> DictNode("VALUE" :> Text(qa))))

MainConfigWithoutValue == DictNode("ARGS" :> DictNode(ENV :> DictNode(<<>>)))

\* what a build is asked to do: a recipe, the arguments of the command line and the main
\* configuration
Build(r, arguments, main) == [recipe |-> r, build_arguments |-> arguments, main_config |-> main]

Builds ==
    {Build(Recipe(ArgsEnv, steps, tag), <<>>, NoMainConfig) :
        steps \in Plans, tag \in {<<>>, out_1}}
    \cup {Build(r, arguments, main) :
            r \in {RecipeWithoutFrom, RecipeUndefined, RecipeMapped, RecipeEscape,
                   RecipeContextInvalid, RecipeChoices, RecipeWithoutDefault,
                   RecipeUnknownFunction, Malformed},
            arguments \in {<<>>, ENV :> Str(dev)},
            main \in {NoMainConfig, MainConfigEnv, MainConfigWithoutValue, Malformed}}

\* the images of the daemon and of the registry when the build starts: attrs["Config"] of
\* base:1, which is absent locally, present without command and entry point, or present
\* with both and with a newer version in the registry
ImageConfig(cmd, entrypoint) == [Cmd |-> cmd, Entrypoint |-> entrypoint]

Daemons ==
    {[images |-> <<>>,
      registry |-> base_1 :> ImageConfig(ListNode(<<Text(bin_zsh)>>), Scalar(None))],
     [images |-> base_1 :> ImageConfig(Scalar(None), Scalar(None)),
      registry |-> <<>>],
     [images |-> base_1 :> ImageConfig(ListNode(<<Text(bin_bash)>>), ListNode(<<Text(entry)>>)),
      registry |-> base_1 :> ImageConfig(ListNode(<<Text(bin_zsh)>>), Scalar(None))]}

\* the orders in which a dict with these keys can be iterated
Orders(keys) ==
    {order \in [1..Cardinality(keys) -> keys] :
        \A i, j \in 1..Cardinality(keys) : i # j => order[i] # order[j]}

NoResult == [image |-> <<>>, tag |-> <<>>]

\* no ConsoleLogger is being fed
IdleConsole == [stream |-> <<>>, passed |-> <<>>, buffer |-> None, logged |-> <<>>]

\* the state in which build() is entered
Start(b, order, options, docker) ==
    /\ recipe = b.recipe
    /\ args_order = order
    /\ main_config = b.main_config
    /\ build_arguments = b.build_arguments
    /\ kwargs = options
    /\ pc = "read_arguments"
    /\ config = b.recipe
    /\ variables = <<>>
    /\ arg_index = 1
    /\ mapping_index = 0
    /\ error = NoError
    /\ step_index = 0
    /\ from_image = <<>>
    /\ container = 0
    /\ build_context_populated = FALSE
    /\ image_id = <<>>
    /\ daemon = [images |-> docker.images, registry |-> docker.registry,
                 containers |-> {}, created |-> 0, committed |-> 0]
    /\ calls = <<>>
    /\ result = NoResult
    /\ console = IdleConsole

ArgumentNames(r) == IF Has(r, "ARGS") THEN DOMAIN r.d["ARGS"].d ELSE {}

Init ==
    \E b \in Builds,
       options \in [tag : {<<>>, cli_2}, ignore_cache : BOOLEAN, keep_containers : BOOLEAN],
       docker \in Daemons :
        \E order \in Orders(ArgumentNames(b.recipe)) : Start(b, order, options, docker)

Next ==
    \/ ReadArguments
    \/ DeclareArgument
    \/ ApplyMapping
    \/ InjectBuildContextPath
    \/ EvaluateVariables
    \/ PrepareBuild
    \/ CreateContainer
    \/ CopyBuildContext
    \/ CopyFiles
    \/ RunCommands
    \/ CleanBuildContext
    \/ CommitImage
    \/ FinallyRemoveContainer
    \/ Return

Spec == Init /\ [][Next]_vars

(***************************************************************************)
(* The Argument Resolver on its own: the declarations of ENV and TIER,     *)
(* the arguments of the command line and of the main configuration vary    *)
(***************************************************************************)

\* a mapping {NAME: "TIER", VALUES: values} of an argument, DEFAULT: default added when the
\* default is not the empty list of nodes
Mapping(values, default) ==
    DictNode(("NAME" :> Text(TIER)) @@ ("VALUES" :> DictNode(values))
             @@ (IF default # <<>> THEN "DEFAULT" :> default[1] ELSE <<>>))

\* the MAPPINGS lists of the model: none; {prod: live}; {prod: live} with DEFAULT dev;
\* {prod: live} with DEFAULT null; {dev: qa} followed by {prod: live} with DEFAULT dev; a
\* mapping without VALUES; {prod: [live]} with DEFAULT [dev]
MappingLists ==
    {<<>>,
     <<Mapping(prod :> Text(live), <<>>)>>,
     <<Mapping(prod :> Text(live), <<Text(dev)>>)>>,
     <<Mapping(prod :> Text(live), <<Scalar(None)>>)>>,
     <<Mapping(dev :> Text(qa), <<>>), Mapping(prod :> Text(live), <<Text(dev)>>)>>,
     <<DictNode("NAME" :> Text(TIER))>>,
     <<Mapping(prod :> ListNode(<<Text(live)>>), <<ListNode(<<Text(dev)>>)>>)>>}

\* the declaration of an argument: DEFAULT: "prod", REQUIRED: true, CHOICES: [prod, dev] and
\* MAPPINGS, each present or not
Declaration(has_default, required, has_choices, mappings) ==
    DictNode((IF has_default THEN "DEFAULT" :> Text(prod) ELSE <<>>)
             @@ (IF required THEN "REQUIRED" :> Scalar(Bool(TRUE)) ELSE <<>>)
             @@ (IF has_choices THEN "CHOICES" :> ListNode(<<Text(prod), Text(dev)>>) ELSE <<>>)
             @@ (IF mappings # <<>> THEN "MAPPINGS" :> ListNode(mappings) ELSE <<>>))

\* the ARGS sections of the model: ENV declared in every way, TIER declared with DEFAULT
\* "prod" or not declared
ArgumentSections ==
    {DictNode((ENV :> Declaration(d, r, c, m))
              @@ (IF tier THEN TIER :> Declaration(TRUE, FALSE, FALSE, <<>>) ELSE <<>>)) :
        d \in BOOLEAN, r \in BOOLEAN, c \in BOOLEAN, m \in MappingLists, tier \in BOOLEAN}

\* the arguments of the command line: ENV and TIER, each given or not
CommandLines ==
    {env @@ tier : env \in {<<>>, ENV :> Str(dev), ENV :> Str(prod)},
                   tier \in {<<>>, TIER :> Str(qa)}}

\* the main configurations: none, ENV: qa, ENV: a list, ENV: prod and TIER: dev, and an
\* argument without VALUE
MainConfigs ==
    {NoMainConfig, MainConfigEnv, MainConfigWithoutValue,
     DictNode("ARGS" :> DictNode(ENV :> DictNode("VALUE" :> ListNode(<<Text(qa)>>)))),
     DictNode("ARGS" :> DictNode((ENV :> DictNode("VALUE" :> Text(prod)))
                                 @@ (TIER :> DictNode("VALUE" :> Text(dev)))))}

\* builds in which BUILD_CONTEXT_PATH is the target of a mapping of ENV, is declared with
\* the default "prod", is given on the command line, or is given by the main configuration
ArgsContextPathMapped ==
    DictNode(ENV :> DictNode(("DEFAULT" :> Text(prod))
                             @@ ("MAPPINGS" :> ListNode(<<
                                    DictNode(("NAME" :> Text(BUILD_CONTEXT_PATH))
                                             @@ ("VALUES" :> DictNode(prod :> Text(live))))>>))))

ArgsContextPathDeclared ==
    DictNode((ENV :> Declaration(TRUE, FALSE, FALSE, <<>>))
             @@ (BUILD_CONTEXT_PATH :> Declaration(TRUE, FALSE, FALSE, <<>>)))

MainConfigContextPath ==
    DictNode("ARGS" :> DictNode(BUILD_CONTEXT_PATH :> DictNode("VALUE" :> Text(qa))))

ContextPathBuilds ==
    {Build(Recipe(args, <<StepRun>>, out_1), arguments, main) :
        args \in {ArgsEnv, ArgsContextPathMapped, ArgsContextPathDeclared},
        arguments \in {<<>>, BUILD_CONTEXT_PATH :> Str(dev)},
        main \in {NoMainConfig, MainConfigContextPath}}

ResolveBuilds ==
    {Build(Recipe(args, <<StepRun>>, out_1), arguments, main) :
        args \in ArgumentSections, arguments \in CommandLines, main \in MainConfigs}
    \cup ContextPathBuilds

DefaultOptions == [tag |-> <<>>, ignore_cache |-> FALSE, keep_containers |-> FALSE]

LocalDaemon == [images |-> base_1 :> ImageConfig(Scalar(None), Scalar(None)), registry |-> <<>>]

InitResolve ==
    \E b \in ResolveBuilds :
        \E order \in Orders(ArgumentNames(b.recipe)) :
            Start(b, order, DefaultOptions, LocalDaemon)

\* build() up to the return of BuildConfig._load_variables
NextResolve ==
    \/ ReadArguments
    \/ DeclareArgument
    \/ ApplyMapping
    \/ InjectBuildContextPath

SpecResolve == InitResolve /\ [][NextResolve]_vars

(***************************************************************************)
(* Builds whose first step declares a list of build context entries        *)
(***************************************************************************)

etc_passwd == <<"/","e","t","c","/","p","a","s","s","w","d">>

up_build_context_x ==
    <<".",".","/","b","u","i","l","d","-","c","o","n","t","e","x","t","-","x">>

up == <<".", ".">>

\* the longest BUILDCONTEXT list of the model
MaxEntries == 2

\* the entries of a BUILDCONTEXT list: {SRC: "a"} without DST or with one of the
\* destinations "/etc/passwd", "sub/dir/", "../build-context-x", ".." and "../x"
ContextEntries ==
    {EntryWithoutDst(src_a)}
    \cup {Entry(src_a, dst) : dst \in {etc_passwd, sub_dir, up_build_context_x, up, up_x}}

ContextLists == UNION {[1..n -> ContextEntries] : n \in 1..MaxEntries}

\* {BUILDCONTEXT: entries, RUN: "echo {TIER}"}
StepContextEntries(entries) ==
    DictNode(("BUILDCONTEXT" :> ListNode(entries)) @@ ("RUN" :> Text(echo_TIER)))

ContextBuilds ==
    {Build(Recipe(ArgsEnvTier, steps, out_1), <<>>, NoMainConfig) :
        steps \in {<<StepContextEntries(entries)>> : entries \in ContextLists}
                  \cup {<<StepContextEntries(entries), StepCopy>> : entries \in ContextLists}}

InitContext ==
    \E b \in ContextBuilds, keep \in BOOLEAN, docker \in Daemons :
        \E order \in Orders(ArgumentNames(b.recipe)) :
            Start(b, order, [DefaultOptions EXCEPT !.keep_containers = keep], docker)

SpecContext == InitContext /\ [][Next]_vars

(***************************************************************************)
(* Builds whose recipes hold templates in TAG and in the RUN of a step     *)
(***************************************************************************)

NOPE == <<"N","O","P","E">>

ref_NOPE == <<"{","N","O","P","E","}">>

lower_NOPE == <<"{","l","o","w","e","r","(","{","N","O","P","E","}",")","}">>

foo_NOPE == <<"{","f","o","o","(","{","N","O","P","E","}",")","}">>

escaped_NOPE == <<"{","{","N","O","P","E","}","}">>

stray_then_NOPE == <<"a","}"," ","{","N","O","P","E","}">>

NOPE_then_stray == <<"{","N","O","P","E","}"," ","a","}">>

lower_ENV == <<"{","l","o","w","e","r","(","{","E","N","V","}",")","}">>

TIER_NOPE == <<"{","T","I","E","R","}","{","N","O","P","E","}">>

lower_bare_NOPE == <<"{","l","o","w","e","r","(","N","O","P","E",")","}">>

NOPE_then_foo == <<"{","N","O","P","E","}","{","f","o","o","(","x",")","}">>

\* the templates of the model: "echo {ENV}", "echo {NOPE}", "{NOPE}", "{lower({NOPE})}",
\* "{foo({NOPE})}", "{{NOPE}}", "a} {NOPE}", "{NOPE} a}", "{lower({ENV})}", "{TIER}{NOPE}",
\* "{lower(NOPE)}" and "{NOPE}{foo(x)}"
Templates ==
    {echo_ENV, echo_NOPE, ref_NOPE, lower_NOPE, foo_NOPE, escaped_NOPE, stray_then_NOPE,
     NOPE_then_stray, lower_ENV, TIER_NOPE, lower_bare_NOPE, NOPE_then_foo}

\* {FROM: "base:1", ARGS: ..., STEPS: [{RUN: [first, second]}], TAG: tag}; NOPE is a
\* variable only when the command line gives it
TemplateBuilds ==
    {Build(Recipe(ArgsEnvTier, <<DictNode("RUN" :> ListNode(<<Text(first), Text(second)>>))>>,
                  tag),
           arguments, NoMainConfig) :
        first \in Templates, second \in Templates, tag \in {out_1, ref_NOPE, foo_NOPE},
        arguments \in {<<>>, NOPE :> Str(dev)}}

InitTemplate ==
    \E b \in TemplateBuilds :
        \E order \in Orders(ArgumentNames(b.recipe)) :
            Start(b, order, DefaultOptions, LocalDaemon)

SpecTemplate == InitTemplate /\ [][Next]_vars

(***************************************************************************)
(* ConsoleLogger (logger.py), fed with the chunks of a stream              *)
(***************************************************************************)

\* the header that run_command gives to its ConsoleLogger
Start_of_Container_Logs ==
    <<"S","t","a","r","t"," ","o","f"," ","C","o","n","t","a","i","n","e","r"," ","L","o","g","s">>

\* _header_line_character * n
HeaderLineCharacters(n) == [i \in 1..n |-> "*"]

\* ConsoleLogger.__enter__, lines 27-33: the line logged for the header
HeaderLine(header) ==
    HeaderLineCharacters(26) \o <<" ">> \o header \o <<" ">> \o HeaderLineCharacters(26)

\* ConsoleLogger.__exit__, lines 43-49: the line logged after the stream
FooterLine(header) ==
    HeaderLineCharacters(26) \o HeaderLineCharacters(Len(header) + 2)
        \o HeaderLineCharacters(26)

\* ConsoleLogger.log, lines 64-67: the text that is split into lines.  A conditional
\* expression binds weaker than +, and nests to the right:
\* buffer if buffer else (("" + message) if incomplete else message[:-1])
LogText(buffer, message, is_last_message_incomplete) ==
    IF buffer.t = "str" /\ buffer.s # <<>> THEN buffer.s
    ELSE IF is_last_message_incomplete THEN message
    ELSE SubSeq(message, 1, Len(message) - 1)

\* ConsoleLogger.log(message) of an enabled logger: the new buffer and the lines logged
LogOf(buffer, message) ==
    LET is_last_message_incomplete == message = <<>> \/ message[Len(message)] # "\n"
        log_lines == Split(LogText(buffer, message, is_last_message_incomplete), "\n")
    IN IF is_last_message_incomplete
       THEN [buffer |-> Str(log_lines[Len(log_lines)]),
             lines |-> SubSeq(log_lines, 1, Len(log_lines) - 1)]
       ELSE [buffer |-> None, lines |-> log_lines]

\* ConsoleLogger.__enter__ with is_enabled and the header of run_command
EnterConsole ==
    /\ pc = "console_enter"
    /\ console' = [console EXCEPT !.logged = <<HeaderLine(Start_of_Container_Logs)>>]
    /\ pc' = "console_log"
    /\ UNCHANGED <<inputs, config, resolver, error, orchestrator, daemon, calls, result>>

\* execute_instructions, lines 369-371: the next chunk of the stream is given to log
LogChunk ==
    /\ pc = "console_log"
    /\ console.stream # <<>>
    /\ LET message == Head(console.stream)
           outcome == LogOf(console.buffer, message)
       IN console' = [stream |-> Tail(console.stream),
                      passed |-> Append(console.passed, message),
                      buffer |-> outcome.buffer,
                      logged |-> console.logged \o outcome.lines]
    /\ UNCHANGED <<inputs, pc, config, resolver, error, orchestrator, daemon, calls, result>>

\* ConsoleLogger.__exit__ at the end of the stream: what is left in the buffer is logged,
\* then the footer
ExitConsole ==
    /\ pc = "console_log"
    /\ console.stream = <<>>
    /\ console' = [console EXCEPT
                      !.logged = @ \o (IF console.buffer.t = "str" /\ console.buffer.s # <<>>
                                       THEN <<console.buffer.s>> ELSE <<>>)
                                   \o <<FooterLine(Start_of_Container_Logs)>>]
    /\ pc' = "console_exit"
    /\ UNCHANGED <<inputs, config, resolver, error, orchestrator, daemon, calls, result>>

\* the longest chunk and the longest stream of the model
MaxChunkLength == 2

MaxChunks == 3

\* the chunks: texts of the characters a, b and new line
Chunks == UNION {[1..n -> {"a", "b", "\n"}] : n \in 1..MaxChunkLength}

Streams == UNION {[1..n -> Chunks] : n \in 0..MaxChunks}

InitConsole ==
    \E chunks \in Streams :
        /\ recipe = DictNode(<<>>)
        /\ args_order = <<>>
        /\ main_config = NoMainConfig
        /\ build_arguments = <<>>
        /\ kwargs = DefaultOptions
        /\ pc = "console_enter"
        /\ config = DictNode(<<>>)
        /\ variables = <<>>
        /\ arg_index = 1
        /\ mapping_index = 0
        /\ error = NoError
        /\ step_index = 0
        /\ from_image = <<>>
        /\ container = 0
        /\ build_context_populated = FALSE
        /\ image_id = <<>>
        /\ daemon = [images |-> <<>>, registry |-> <<>>, containers |-> {}, created |-> 0,
                     committed |-> 0]
        /\ calls = <<>>
        /\ result = NoResult
        /\ console = [IdleConsole EXCEPT !.stream = chunks]

NextConsole ==
    \/ EnterConsole
    \/ LogChunk
    \/ ExitConsole

SpecConsole == InitConsole /\ [][NextConsole]_vars

(***************************************************************************)
(* Builds whose single step runs short and long instructions               *)
(***************************************************************************)

\* an instruction of 43 characters
make_install_staged ==
    <<"m","a","k","e"," ","i","n","s","t","a","l","l"," ","D","E","S","T","D","I","R","=","/",
      "o","p","t","/","s","t","a","g","e"," ","P","R","E","F","I","X","=","/","u","s","r">>

\* the RUN declarations of the model: one short instruction, one long instruction, and
\* lists of two instructions
RunDeclarations ==
    {Text(make), Text(make_install_staged),
     ListNode(<<Text(make), Text(make_install)>>),
     ListNode(<<Text(make), Text(make_install_staged)>>),
     ListNode(<<Text(make_install_staged), Text(make)>>)}

\* ARGS: {NOPE: {VALUE: ["qa"]}}
MainConfigList == DictNode("ARGS" :> DictNode(NOPE :> DictNode("VALUE" :> ListNode(<<Text(qa)>>))))

RunBuilds ==
    {Build(Recipe(ArgsEnvTier, <<DictNode("RUN" :> run)>>, out_1), <<>>, main) :
        run \in RunDeclarations, main \in {NoMainConfig, MainConfigList}}

InitRun ==
    \E b \in RunBuilds, keep \in BOOLEAN, docker \in Daemons :
        \E order \in Orders(ArgumentNames(b.recipe)) :
            Start(b, order, [DefaultOptions EXCEPT !.keep_containers = keep], docker)

SpecRun == InitRun /\ [][Next]_vars

(***************************************************************************)
(* Properties of the step orchestrator                                     *)
(***************************************************************************)

\* the positions in calls of the calls of one operation made for step i
Positions(op, i) == {k \in DOMAIN calls : calls[k].op = op /\ calls[k].step = i}

\* the positions in calls of all the calls made for step i
StepCalls(i) == {k \in DOMAIN calls : calls[k].step = i}

\* create_container returned a container to step i
HasContainer(i) == \E k \in Positions("start", i) : calls[k].ok

ContainerOf(i) == calls[CHOOSE k \in Positions("start", i) : calls[k].ok].container

\* _build_step is over for step i: it returned or its exception left it
StepOver(i) == step_index > i \/ pc \in {"failed", "done"}

\* the step of the recipe at position i, as declared
Declared(i) == recipe.d["STEPS"].items[i]

\* C1: a step that got its container from create_container calls remove_container for that
\* container exactly once when containers are not kept, whether the step completed or
\* failed while copying the context, copying files, running, cleaning up or committing,
\* and never when containers are kept
C1_RemovedExactlyOnce ==
    \A i \in 1..step_index :
        HasContainer(i) =>
            LET removals == Positions("remove", i)
            IN /\ \A k \in removals : calls[k].container = ContainerOf(i)
               /\ Cardinality(removals) <= 1
               /\ kwargs.keep_containers => removals = {}
               /\ (StepOver(i) /\ ~kwargs.keep_containers) => Cardinality(removals) = 1

\* a step failed with CommandExecutionError after its container was created and the
\* container was removed
C1_Witness ==
    /\ pc = "failed"
    /\ error.kind = "CommandExecutionError"
    /\ HasContainer(step_index)
    /\ Positions("remove", step_index) # {}

\* C2: commit is called with the tag only for the step at the last position of the plan, in
\* every plan, also when an earlier step has the content of the last step
C2_TagOnlyAtLastPosition ==
    \A k \in DOMAIN calls :
        calls[k].op = "commit" =>
            (calls[k].tag # <<>> <=> (calls[k].step = Len(Steps) /\ Has(config, "TAG")))

\* the step from this state to the next is the commit of the image of a step
Committing ==
    /\ pc = "commit"
    /\ Len(calls') > Len(calls)
    /\ calls'[Len(calls')].op = "commit"

\* the CONFIG of the step being built, as it is when the commit starts
DeclaredConfig == IF Has(step_config, "CONFIG") THEN step_config.d["CONFIG"] ELSE DictNode(<<>>)

\* C3 (as the code has it): a step that does not declare CONFIG.CMD commits with the Cmd
\* of the image its container was created from, or with the empty list when that image has
\* no Cmd; a step that does not declare CONFIG.ENTRYPOINT commits with exactly the
\* Entrypoint of that image; a step that declares CONFIG.CMD commits with exactly the
\* declared value
C3_CommandInherited ==
    [][Committing =>
        LET commit == calls'[Len(calls')]
            base == daemon.images[from_image]
        IN /\ Has(DeclaredConfig, "CMD") => commit.cmd = DeclaredConfig.d["CMD"]
           /\ ~Has(DeclaredConfig, "CMD") =>
                 commit.cmd = IF base.Cmd = Scalar(None) THEN ListNode(<<>>) ELSE base.Cmd
           /\ ~Has(DeclaredConfig, "ENTRYPOINT") => commit.entrypoint = base.Entrypoint]_vars

\* the first step declares no CONFIG.CMD, base:1 has no Cmd and the step was committed
\* with the empty list
C3_Witness ==
    /\ \E k \in Positions("commit", 1) : calls[k].ok /\ calls[k].cmd = ListNode(<<>>)
    /\ ~Has(Declared(1), "CONFIG")
    /\ daemon.images[base_1].Cmd = Scalar(None)

\* C3 as stated: a step that does not declare CONFIG.CMD commits with Cmd equal to the Cmd
\* of its base image, likewise for Entrypoint, and a declared CONFIG.CMD is committed as
\* declared
C3_Original ==
    [][Committing =>
        LET commit == calls'[Len(calls')]
            base == daemon.images[from_image]
        IN /\ Has(DeclaredConfig, "CMD") => commit.cmd = DeclaredConfig.d["CMD"]
           /\ ~Has(DeclaredConfig, "CMD") => commit.cmd = base.Cmd
           /\ ~Has(DeclaredConfig, "ENTRYPOINT") => commit.entrypoint = base.Entrypoint]_vars

\* the build of the end-to-end scenario: its recipe, no argument and no tag on the command
\* line, no main configuration, containers not kept
Scenario ==
    /\ recipe = ScenarioRecipe
    /\ build_arguments = <<>>
    /\ main_config = NoMainConfig
    /\ kwargs.tag = <<>>
    /\ ~kwargs.keep_containers

\* the positions in calls of the calls of one operation, whatever the step
AllPositions(op) == {k \in DOMAIN calls : calls[k].op = op}

\* C8: in the end-to-end scenario ENV resolves to prod, containers are created from base:1
\* only and at most once, the only instruction run is "echo prod", at most one image is
\* committed and it is tagged out:1; when build returns, exactly one container was created,
\* "echo prod" was run in it, one image was committed with tag out:1, the container was
\* removed, and the result is that image id with out:1
C8_Scenario ==
    Scenario =>
        /\ pc \in {"inject", "evaluate", "prepare", "create", "context", "files", "run",
                   "cleanup", "commit", "finally", "return", "done"}
              => ENV \in DOMAIN variables /\ variables[ENV] = Str(prod)
        /\ Cardinality(AllPositions("create")) <= 1
        /\ \A k \in AllPositions("create") : calls[k].image = base_1
        /\ \A k \in AllPositions("exec") : calls[k].instructions = <<echo_prod>>
        /\ AllPositions("copy") = {}
        /\ Cardinality(AllPositions("commit")) <= 1
        /\ \A k \in AllPositions("commit") : calls[k].tag = out_1
        /\ pc = "done" =>
              \E c \in AllPositions("create"), x \in AllPositions("exec"),
                 i \in AllPositions("commit"), r \in AllPositions("remove") :
                  /\ c < x /\ x < i /\ i < r
                  /\ calls[c].ok /\ calls[x].ok /\ calls[i].ok /\ calls[r].ok
                  /\ calls[x].container = calls[c].container
                  /\ calls[i].container = calls[c].container
                  /\ calls[r].container = calls[c].container
                  /\ AllPositions("exec") = {x}
                  /\ AllPositions("remove") = {r}
                  /\ daemon.containers = {}
                  /\ calls[i].image \in DOMAIN daemon.images
                  /\ out_1 \in DOMAIN daemon.images
                  /\ result = [image |-> calls[i].image, tag |-> out_1]

\* the build of the scenario returned
C8_Witness == Scenario /\ pc = "done" /\ result.tag = out_1

\* the place of a part of _build_step in the order of the step
PhaseRank(phase) ==
    CASE phase = "create" -> 1
      [] phase = "context" -> 2
      [] phase = "files" -> 3
      [] phase = "run" -> 4
      [] phase = "cleanup" -> 5
      [] phase = "commit" -> 6
      [] phase = "remove" -> 7

\* the key of a step that makes a part of _build_step call the daemon
PhaseKey(phase) ==
    CASE phase = "context" -> "BUILDCONTEXT"
      [] phase = "files" -> "COPY"
      [] phase = "run" -> "RUN"
      [] phase = "cleanup" -> "BUILDCONTEXT"

\* C10: the calls of one step are made in the order create, copy of the build context, copy
\* of the COPY entries, RUN, removal of the build context, commit, removal of the container;
\* the copies, the RUN and the removal of the context are made only when the step declares
\* them; after a call that failed the only call of the step is the removal of its container;
\* the removal of the container is the last call of the step, and it is the last call of
\* every finished step that had a container when containers are not kept
C10_StepOrder ==
    \A i \in 1..step_index :
        /\ \A j, k \in StepCalls(i) :
              j < k => /\ PhaseRank(calls[j].phase) <= PhaseRank(calls[k].phase)
                       /\ calls[j].phase # "remove"
                       /\ ~calls[j].ok => calls[k].phase = "remove"
        /\ \A k \in StepCalls(i) :
              calls[k].phase \in {"context", "files", "run", "cleanup"}
                  => Has(Declared(i), PhaseKey(calls[k].phase))
        /\ \A k \in StepCalls(i) :
              calls[k].phase # "create" =>
                  /\ HasContainer(i)
                  /\ calls[k].op # "get_image" => calls[k].container = ContainerOf(i)
        /\ (StepOver(i) /\ HasContainer(i) /\ ~kwargs.keep_containers)
              => \E r \in Positions("remove", i) : \A k \in StepCalls(i) : k <= r

\* a step whose commit was refused by the daemon had its build context copied, its RUN made
\* and the context removed before, and its container removed after
C10_Witness ==
    /\ pc = "failed"
    /\ \E c \in Positions("copy", 1), x \in Positions("exec", 1), i \in Positions("commit", 1),
          r \in Positions("remove", 1) :
           /\ calls[c].phase = "context" /\ calls[x].phase = "cleanup"
           /\ ~calls[i].ok
           /\ c < x /\ x < i /\ i < r

(***************************************************************************)
(* Properties of the Argument Resolver                                     *)
(***************************************************************************)

\* the arguments the recipe declares, as they are on disk
RecipeArguments == IF Has(recipe, "ARGS") THEN recipe.d["ARGS"].d ELSE <<>>

\* the mappings the recipe declares for argument name
MappingsOf(name) ==
    IF Has(RecipeArguments[name], "MAPPINGS")
    THEN Range(RecipeArguments[name].d["MAPPINGS"].items)
    ELSE {}

\* the names of the variables that the mappings of the recipe write
MappingTargets ==
    {NodeValue(m.d["NAME"]).s :
        m \in {m \in UNION {MappingsOf(name) : name \in DOMAIN RecipeArguments} : Has(m, "NAME")}}

\* the arguments to which the main configuration gives a value
GlobalArguments ==
    IF Has(main_config, "ARGS")
    THEN {name \in DOMAIN main_config.d["ARGS"].d : Has(main_config.d["ARGS"].d[name], "VALUE")}
    ELSE {}

GlobalValue(name) == NodeValue(main_config.d["ARGS"].d[name].d["VALUE"])

\* the arguments the recipe declares with a default
DefaultedArguments == {name \in DOMAIN RecipeArguments : Has(RecipeArguments[name], "DEFAULT")}

RecipeDefault(name) == NodeValue(RecipeArguments[name].d["DEFAULT"])

\* the names the precedence is about: every name that has a value somewhere, but for the
\* targets of mappings and the injected BUILD_CONTEXT_PATH
PlainNames ==
    (DOMAIN variables \cup DOMAIN build_arguments \cup GlobalArguments \cup DOMAIN RecipeArguments)
        \ (MappingTargets \cup {BUILD_CONTEXT_PATH})

\* _load_variables returned
Resolved == pc = "evaluate"

MappingApplied ==
    /\ pc = "load_variables"
    /\ mapping_index > 0
    /\ pc' # pc \/ mapping_index' # mapping_index \/ arg_index' # arg_index
    /\ LET m == RecipeArguments[args_order[arg_index]].d["MAPPINGS"].items[mapping_index]
       IN Has(m, "NAME") /\ Has(m, "VALUES")

\* the mapping being handled, its target, and the value of its argument
CurrentMapping == RecipeArguments[args_order[arg_index]].d["MAPPINGS"].items[mapping_index]

CurrentTarget == NodeValue(CurrentMapping.d["NAME"]).s

CurrentValue == variables[args_order[arg_index]]

\* the value of the argument is a string that is a key of VALUES
CurrentValueIsKey ==
    CurrentValue.t = "str" /\ CurrentValue.s \in DOMAIN CurrentMapping.d["VALUES"].d

\* the mapping has a DEFAULT that is not null
CurrentHasDefault ==
    Has(CurrentMapping, "DEFAULT") /\ CurrentMapping.d["DEFAULT"] # Scalar(None)

\* C5 (as the code has it): for every mapping of an argument whose value is a string: when
\* the value is a key of VALUES, the target variable is set to exactly the mapped value;
\* when it is not a key and the mapping has a DEFAULT that is not null, the target is set to
\* the default; when it is not a key and there is no such default, resolution fails with
\* InvalidBuildConfigurations, raised in place of the InvalidArgumentMapping it reports, and
\* no variable is written
C5_Mapping ==
    [][(MappingApplied /\ CurrentValue.t = "str") =>
        IF CurrentValueIsKey
        THEN /\ pc' # "failed"
             /\ variables'[CurrentTarget]
                    = NodeValue(CurrentMapping.d["VALUES"].d[CurrentValue.s])
        ELSE IF CurrentHasDefault
        THEN /\ pc' # "failed"
             /\ variables'[CurrentTarget] = NodeValue(CurrentMapping.d["DEFAULT"])
        ELSE /\ pc' = "failed"
             /\ error'.kind = "InvalidBuildConfigurations"
             /\ error'.cause = "InvalidArgumentMapping"
             /\ variables' = variables]_vars

\* the mapping {prod: live} of ENV, without default, met the value dev: resolution failed
\* and TIER was not written
C5_Witness ==
    /\ pc = "failed"
    /\ error.cause = "InvalidArgumentMapping"
    /\ mapping_index > 0
    /\ CurrentMapping = Mapping(prod :> Text(live), <<>>)
    /\ CurrentValue = Str(dev)
    /\ TIER \notin DOMAIN variables

\* C5 as stated: a value that is a key gives the mapped value, a value that is not a key
\* gives the default when the mapping has one, and otherwise resolution fails with
\* InvalidArgumentMapping and the target is not written
C5_Original ==
    [][MappingApplied =>
        IF CurrentValueIsKey
        THEN /\ pc' # "failed"
             /\ variables'[CurrentTarget]
                    = NodeValue(CurrentMapping.d["VALUES"].d[CurrentValue.s])
        ELSE IF Has(CurrentMapping, "DEFAULT")
        THEN /\ pc' # "failed"
             /\ variables'[CurrentTarget] = NodeValue(CurrentMapping.d["DEFAULT"])
        ELSE /\ pc' = "failed"
             /\ error'.kind = "InvalidArgumentMapping"
             /\ variables' = variables]_vars

(***************************************************************************)
(* Properties of the copy of the build context                             *)
(***************************************************************************)

\* the step from this state to the next is _copy_build_context for a BUILDCONTEXT list
ContextListCopied ==
    /\ pc = "context"
    /\ pc' # "context"
    /\ Has(step_config, "BUILDCONTEXT")
    /\ step_config.d["BUILDCONTEXT"].t = "list"

\* the entries of the list, and the calls of DockerAPI.copy made for them, entry j being
\* copied by call j
ContextEntriesNow == step_config.d["BUILDCONTEXT"].items

CopiesMade == SubSeq(calls', Len(calls) + 1, Len(calls'))

DeclaredDst(copy_details) ==
    IF Has(copy_details, "DST") THEN NodeValue(copy_details.d["DST"]).s ELSE <<>>

\* entry j of the list was rejected: every entry before it was copied, it was not, and
\* _copy_build_context raised InvalidBuildConfigurations
Rejected(j) ==
    /\ j = Len(CopiesMade) + 1
    /\ j <= Len(ContextEntriesNow)
    /\ \A i \in 1..Len(CopiesMade) : CopiesMade[i].ok
    /\ error'.kind = "InvalidBuildConfigurations"

tmp_build_context_etc_passwd == BUILD_CONTEXT_DST_PATH \o <<"/", ".">> \o etc_passwd

tmp_build_context_sub_dir == BUILD_CONTEXT_DST_PATH \o <<"/">> \o sub_dir

\* C6 (as the code has it): with the context root /tmp/build-context, an entry of a
\* BUILDCONTEXT list with DST "/etc/passwd" is accepted and copied to
\* /tmp/build-context/./etc/passwd, and an entry with DST "sub/dir/" is accepted and copied
\* to /tmp/build-context/sub/dir/; neither is ever rejected
C6_Destinations ==
    [][ContextListCopied =>
        /\ \A j \in 1..Len(CopiesMade) :
              /\ DeclaredDst(ContextEntriesNow[j]) = etc_passwd
                    => CopiesMade[j].dst = tmp_build_context_etc_passwd
              /\ DeclaredDst(ContextEntriesNow[j]) = sub_dir
                    => CopiesMade[j].dst = tmp_build_context_sub_dir
        /\ \A j \in 1..Len(ContextEntriesNow) :
              Rejected(j) => DeclaredDst(ContextEntriesNow[j]) \notin {etc_passwd, sub_dir}]_vars

\* an entry with DST "/etc/passwd" was copied to /tmp/build-context/./etc/passwd and one
\* with DST "sub/dir/" to /tmp/build-context/sub/dir/
C6_Witness ==
    /\ Has(Declared(1), "BUILDCONTEXT")
    /\ Declared(1).d["BUILDCONTEXT"].t = "list"
    /\ \E j, k \in DOMAIN calls :
          /\ calls[j].phase = "context" /\ calls[j].ok
          /\ calls[j].dst = tmp_build_context_etc_passwd
          /\ DeclaredDst(Declared(1).d["BUILDCONTEXT"].items[1]) = etc_passwd
          /\ calls[k].phase = "context" /\ calls[k].ok
          /\ calls[k].dst = tmp_build_context_sub_dir

\* C6 as stated: an entry with DST "/etc/passwd" is rejected, never copied; an entry with
\* DST "sub/dir/" is accepted and copied to /tmp/build-context/sub/dir/
C6_Original ==
    [][ContextListCopied =>
        /\ \A j \in 1..Len(CopiesMade) :
              /\ DeclaredDst(ContextEntriesNow[j]) # etc_passwd
              /\ DeclaredDst(ContextEntriesNow[j]) = sub_dir
                    => CopiesMade[j].dst = tmp_build_context_sub_dir
        /\ \A j \in 1..Len(ContextEntriesNow) :
              Rejected(j) => DeclaredDst(ContextEntriesNow[j]) # sub_dir]_vars

\* the path is the context root or a path below it, component by component
Contained(path) ==
    \/ NormPath(path) = BUILD_CONTEXT_DST_PATH
    \/ StartsWith(NormPath(path), BUILD_CONTEXT_DST_PATH \o <<"/">>)

\* C7: every entry of a BUILDCONTEXT list that is passed to DockerAPI.copy has a normalized
\* destination that is the context root or a path below it, a sibling such as
\* /tmp/build-context-x being outside; an entry whose destination normalizes outside the root
\* is rejected with InvalidBuildConfigurations and never copied
C7_Containment ==
    \A k \in DOMAIN calls :
        (calls[k].op = "copy" /\ calls[k].phase = "context") => Contained(calls[k].dst)

(***************************************************************************)
(* Properties of the Recipe Materializer                                   *)
(***************************************************************************)

\* the non-empty strings at the leaves of a document, ARGS left out, each with its path
RECURSIVE LeavesOf(_, _)
LeavesOf(node, path) ==
    IF node.t = "scalar"
    THEN IF node.s.t = "str" /\ node.s.s # <<>> THEN {[path |-> path, text |-> node.s.s]}
         ELSE {}
    ELSE IF node.t = "list"
    THEN UNION {LeavesOf(node.items[i], path \o "[" \o IndexText[i] \o "]") :
                   i \in DOMAIN node.items}
    ELSE IF path = ""
    THEN UNION {LeavesOf(node.d[k], k) : k \in DOMAIN node.d \ {"ARGS"}}
    ELSE UNION {LeavesOf(node.d[k], path \o "." \o k) : k \in DOMAIN node.d}

Leaves == LeavesOf(recipe, "")

\* the names a template refers to: the names between a "{" that does not follow a "{" and
\* the next "}"
References(text) ==
    {SubSeq(text, i + 1, j - 1) : <<i, j>> \in
        {<<i, j>> \in (DOMAIN text) \X (DOMAIN text) :
            /\ i + 1 < j
            /\ text[i] = "{" /\ text[j] = "}"
            /\ (i = 1 \/ text[i - 1] # "{")
            /\ \A k \in (i + 1)..(j - 1) : IsNameChar(text[k])}}

\* the names a leaf refers to that are not variables
Undefined(leaf) == References(leaf.text) \ DOMAIN variables

\* the leaf is well formed and calls no unknown function: its braces are those of
\* references and of calls of lower, upper and capitalise
Sound(leaf) ==
    leaf.text \in {echo_ENV, echo_NOPE, ref_NOPE, lower_NOPE, lower_ENV, TIER_NOPE,
                   lower_bare_NOPE, out_1}

\* _evaluate_variables returned without an exception
Materialized ==
    pc \in {"prepare", "create", "context", "files", "run", "cleanup", "commit", "finally",
            "return", "done"}

\* _evaluate_variables raised
MaterializationFailed == pc = "failed" /\ step_index = 0 /\ variables # <<>>
                         /\ BUILD_CONTEXT_PATH \in DOMAIN variables

C11_CacheBypassOnlyFirst ==
    \A k \in DOMAIN calls :
        calls[k].op = "pull" => (calls[k].step = 1 /\ kwargs.ignore_cache)

\* C12: when the image of a step is not in the local store, create_container pulls it
\* exactly once; when the pull succeeds the container is created from the image, and when
\* it does not the step fails and no container is created
C12_PullWhenNotLocal ==
    \A k \in DOMAIN calls :
        (calls[k].op = "get_image" /\ calls[k].phase = "create" /\ ~calls[k].ok) =>
            LET pulls == Positions("pull", calls[k].step)
            IN /\ Cardinality(pulls) = 1
               /\ \A p \in pulls :
                     /\ calls[p].image = calls[k].image
                     /\ calls[p].ok =>
                           \E c \in Positions("create", calls[k].step) :
                               calls[c].image = calls[k].image
                     /\ ~calls[p].ok => Positions("create", calls[k].step) = {}

(***************************************************************************)
(* Properties of the configuration errors                                  *)
(***************************************************************************)

\* the build has failed with a configuration error that is not the rejection of an escaping
\* destination: InvalidMainConfigurations, or InvalidBuildConfigurations that carries no DST
ConfigurationErrorReported ==
    /\ pc = "failed"
    /\ error.kind \in {"InvalidMainConfigurations", "InvalidBuildConfigurations"}
    /\ ~(error.path = "BUILDCONTEXT" /\ error.name # <<>>)

\* C13: a build that fails with a configuration error of its recipe or of its main
\* configuration has made no call to the daemon: no image was looked up or pulled and no
\* container was created
C13_ConfigurationErrorsBeforeRuntime ==
    ConfigurationErrorReported => (calls = <<>> /\ daemon.created = 0)

\* the same holds of every configuration error but that of a BUILDCONTEXT that is neither a
\* string nor a list, which _copy_build_context raises
C13_DeclarationErrorsBeforeRuntime ==
    (ConfigurationErrorReported /\ error.path # "BUILDCONTEXT") =>
        (calls = <<>> /\ daemon.created = 0)

\* _copy_build_context has raised the rejection of an escaping destination in the step at
\* step_index, and the finally block of the step has not run yet
EscapeRaised ==
    /\ pc = "finally"
    /\ error.kind = "InvalidBuildConfigurations"
    /\ error.path = "BUILDCONTEXT"
    /\ error.name # <<>>

\* C14: when the rejection of an escaping destination of a BUILDCONTEXT list is raised in a
\* step, no call has been made to the daemon for that step: no container was created for it
\* and no earlier entry of the list was copied
C14_EscapeRejectedBeforeCalls ==
    EscapeRaised => StepCalls(step_index) = {}

(***************************************************************************)
(* Properties of the removal of containers                                 *)
(***************************************************************************)

\* the finally block of the step asks for the removal of the container and the daemon refuses
RemovalFails ==
    /\ pc = "finally"
    /\ Len(calls') = Len(calls) + 1
    /\ calls'[Len(calls')].op = "remove"
    /\ ~calls'[Len(calls')].ok

\* C15: when a step has failed with an error and the removal of its container fails too, the
\* error that build() reports is the one of the step, as build() reports it when the removal
\* succeeds
C15_OriginalErrorReported ==
    [][(RemovalFails /\ error # NoError) => error' = Translated(error)]_vars

\* C16: when a build that does not keep its containers has terminated, and the daemon has
\* refused no removal, no container that the build created is left on the daemon
C16_NoContainerLeft ==
    (/\ pc \in {"done", "failed"}
     /\ ~kwargs.keep_containers
     /\ \A k \in AllPositions("remove") : calls[k].ok)
        => daemon.containers = {}

(***************************************************************************)
(* Properties of the sequence of the steps                                 *)
(***************************************************************************)

\* C17: the calls are made step after step in the declared order; the container of a step
\* after the first is created after the container of the step before it was removed, unless
\* containers are kept, and from the image that the commit of the step before it returned,
\* the container of the first step from FROM; and when containers are not kept the daemon
\* holds at most one container of the build at any moment
C17_Sequential ==
    /\ \A j, k \in DOMAIN calls : j < k => calls[j].step <= calls[k].step
    /\ \A k \in AllPositions("create") :
          LET i == calls[k].step
          IN IF i = 1 THEN calls[k].image = NodeValue(config.d["FROM"]).s
             ELSE /\ HasContainer(i - 1)
                  /\ ~kwargs.keep_containers =>
                        \E r \in Positions("remove", i - 1) :
                            calls[r].ok /\ calls[r].container = ContainerOf(i - 1)
                  /\ kwargs.keep_containers => Positions("remove", i - 1) = {}
                  /\ \E c \in Positions("commit", i - 1) :
                        calls[c].ok /\ calls[c].image = calls[k].image
    /\ ~kwargs.keep_containers => Cardinality(daemon.containers) <= 1

\* a build of two steps that does not keep its containers has created the container of its
\* second step
C17_Witness ==
    /\ ~kwargs.keep_containers
    /\ step_index = 2
    /\ pc = "context"
    /\ Positions("create", 2) # {}
    /\ daemon.containers = {container}

(***************************************************************************)
(* Properties of the declarations of the arguments                         *)
(***************************************************************************)

\* _load_variables is about to handle the declaration of the argument at arg_index
Declaring == pc = "load_variables" /\ mapping_index = 0

DeclaringName == args_order[arg_index]

DeclaringAttributes == config.d["ARGS"].d[DeclaringName]

DeclaringRequired ==
    /\ "REQUIRED" \in DOMAIN DeclaringAttributes.d
    /\ NodeValue(DeclaringAttributes.d["REQUIRED"]) = Bool(TRUE)

DeclaringHasDefault == "DEFAULT" \in DOMAIN DeclaringAttributes.d

DeclaringPresent == DeclaringName \in DOMAIN variables

\* the declaration breaks one of the two rules about missing arguments
DeclaringMissing ==
    \/ DeclaringRequired /\ ~DeclaringPresent
    \/ ~DeclaringRequired /\ ~DeclaringHasDefault

\* after the declaration the argument has the value it had, or its default when it had none
DeclaringResolved ==
    /\ DeclaringName \in DOMAIN variables'
    /\ variables'[DeclaringName] =
          IF DeclaringPresent THEN variables[DeclaringName]
          ELSE NodeValue(DeclaringAttributes.d["DEFAULT"])

\* C18, as the code has it: a declaration that is required and has no value, or that is not
\* required and has no default (with or without a value), makes the resolution fail with
\* InvalidBuildConfigurations raised in place of MissingArgument, the variables being left as
\* they were; every other declaration leaves the argument with the value that was present,
\* or with the default when none was
C18_Declaration ==
    [][Declaring =>
         IF DeclaringMissing
         THEN /\ pc' = "failed"
              /\ error'.kind = "InvalidBuildConfigurations"
              /\ error'.cause = "MissingArgument"
              /\ variables' = variables
         ELSE DeclaringResolved]_vars

\* the resolution has failed on an argument that is not required and has no default, for
\* which a value was given
C18_Witness ==
    /\ pc = "failed"
    /\ error.cause = "MissingArgument"
    /\ mapping_index = 0
    /\ arg_index \in DOMAIN args_order
    /\ ~DeclaringRequired
    /\ ~DeclaringHasDefault
    /\ DeclaringPresent

\* C18, as it is stated: the resolution fails with MissingArgument
C18_Original ==
    [][Declaring =>
         IF DeclaringMissing
         THEN pc' = "failed" /\ error'.kind = "MissingArgument"
         ELSE DeclaringResolved]_vars

\* the result that the mapping being handled selects: the mapped value of the value of the
\* argument, or the default of the mapping
CurrentSelected ==
    IF CurrentValueIsKey THEN CurrentMapping.d["VALUES"].d[CurrentValue.s]
    ELSE CurrentMapping.d["DEFAULT"]

\* C19: when the result that a mapping selects is a list or a dict the resolution fails on
\* that mapping for InvalidArgumentMapping, raised as it is or reported by
\* InvalidBuildConfigurations, and its target is not written, so that no mapping gives a
\* list or a dict to a variable
C19_StructuredMappingRejected ==
    [][(/\ MappingApplied
        /\ CurrentValue.t = "str"
        /\ CurrentValueIsKey \/ CurrentHasDefault
        /\ CurrentSelected.t \in {"list", "dict"}) =>
            (/\ pc' = "failed"
             /\ "InvalidArgumentMapping" \in {error'.kind, error'.cause}
             /\ variables' = variables)]_vars

(***************************************************************************)
(* Properties of the injected build context path                           *)
(***************************************************************************)

\* C20: after every resolution that has succeeded the variable BUILD_CONTEXT_PATH is
\* /tmp/build-context, whatever the command line, the main configuration, a declaration of
\* the recipe or a mapping gave to that name
C20_ContextPathInjected ==
    Resolved =>
        /\ BUILD_CONTEXT_PATH \in DOMAIN variables
        /\ variables[BUILD_CONTEXT_PATH] = Str(BUILD_CONTEXT_DST_PATH)

\* a resolution has succeeded in which the command line gave dev, the main configuration qa
\* and a mapping of ENV live to BUILD_CONTEXT_PATH
C20_Witness ==
    /\ Resolved
    /\ BUILD_CONTEXT_PATH \in DOMAIN build_arguments
    /\ build_arguments[BUILD_CONTEXT_PATH] = Str(dev)
    /\ BUILD_CONTEXT_PATH \in GlobalArguments
    /\ BUILD_CONTEXT_PATH \in MappingTargets
    /\ variables[BUILD_CONTEXT_PATH] = Str(BUILD_CONTEXT_DST_PATH)

(***************************************************************************)
(* Properties of the values of the command line                            *)
(***************************************************************************)

\* C21: after a resolution that has succeeded every name but BUILD_CONTEXT_PATH to which the
\* command line gave a value has that value, also when a mapping of the recipe has the name
\* as its target
C21_CommandLineWins ==
    Resolved =>
        \A X \in DOMAIN build_arguments \ {BUILD_CONTEXT_PATH} :
            X \in DOMAIN variables /\ variables[X] = build_arguments[X]

(***************************************************************************)
(* Properties of a build without a tag                                     *)
(***************************************************************************)

\* neither the recipe nor the command line gives a tag
Untagged == recipe # Malformed /\ ~Has(recipe, "TAG") /\ kwargs.tag = <<>>

\* build() is over, every call it made to the daemon succeeded and its last step committed
AllStepsBuilt ==
    /\ pc \in {"done", "failed"}
    /\ step_index >= 1
    /\ \A k \in DOMAIN calls : calls[k].ok
    /\ Positions("commit", Len(Steps)) # {}

\* C22: in a build without a tag every commit is made without a tag, and when every step has
\* been built the build ends successfully and returns the id of the image of the last commit
\* with no tag
C22_UntaggedBuildSucceeds ==
    Untagged =>
        /\ \A k \in AllPositions("commit") : calls[k].tag = <<>>
        /\ AllStepsBuilt =>
              /\ pc = "done"
              /\ result.tag = <<>>
              /\ \E k \in Positions("commit", Len(Steps)) : result.image = calls[k].image

(***************************************************************************)
(* Properties of the failure of a RUN                                      *)
(***************************************************************************)

\* the RUN of the step at step_index has just left its shell with a status that is not 0
RunFailed ==
    /\ pc = "finally"
    /\ calls # <<>>
    /\ calls[Len(calls)].op = "exec"
    /\ calls[Len(calls)].phase = "run"
    /\ ~calls[Len(calls)].ok

FailedRun == calls[Len(calls)]

\* the text is the instruction, or its first 30 characters when the instruction is longer,
\* whatever follows those 30 characters
NamesInstruction(text, instruction) ==
    IF Len(instruction) <= 30 THEN text = instruction
    ELSE Len(text) >= 30 /\ SubSeq(text, 1, 30) = SubSeq(instruction, 1, 30)

\* C23: when the shell of a RUN exits with a status that is not 0 the step fails with
\* CommandExecutionError, which carries that status and names the instruction that failed,
\* cut to its first 30 characters when it is longer, also when the RUN is a list of several
\* instructions
C23_FailingInstructionNamed ==
    RunFailed =>
        /\ error.kind = "CommandExecutionError"
        /\ error.exit_code = FailedRun.exit_code
        /\ NamesInstruction(error.name, FailedRun.instructions[FailedRun.failed_at])

\* the same holds of every RUN of one instruction
C23_SingleInstructionNamed ==
    (RunFailed /\ Len(FailedRun.instructions) = 1) =>
        /\ error.kind = "CommandExecutionError"
        /\ error.exit_code = FailedRun.exit_code
        /\ NamesInstruction(error.name, FailedRun.instructions[FailedRun.failed_at])

(***************************************************************************)
(* Properties of the shell command of a RUN                                *)
(***************************************************************************)

\* the variables of the resolved set whose value is not a list or a dict
ScalarVariables == {name \in DOMAIN variables : variables[name].t \notin {"list", "dict"}}

\* export NAME="value" for a variable of the resolved set
ExportText(name) ==
    <<"e","x","p","o","r","t"," ">> \o name \o <<"=", "\"">> \o variables[name].s \o <<"\"">>

\* the instructions that the step at position i declares, in the order of the declaration
DeclaredInstructions(i) ==
    LET run == Steps[i].d["RUN"]
    IN IF run.t = "list" THEN [j \in DOMAIN run.items |-> run.items[j].s.s] ELSE <<run.s.s>>

\* set -e, the exports in the given order, and the instructions, with "; " between them
RECURSIVE Sequenced(_)
Sequenced(parts) ==
    IF Len(parts) = 1 THEN parts[1]
    ELSE parts[1] \o <<";", " ">> \o Sequenced(Tail(parts))

StrictCommand(names, instructions) ==
    Sequenced(<<(<<"s","e","t"," ","-","e">>)>>
              \o [j \in DOMAIN names |-> ExportText(names[j])]
              \o instructions)

\* C24: the shell command of every RUN is set -e, then one export for every variable of the
\* resolved set whose value is not a list or a dict, in some order, then the instructions of
\* the step in the order of their declaration; and a step that declares RUN and has gone
\* past it has made that call, whether or not a variable holds a list or a dict
C24_ShellCommand ==
    /\ \A k \in AllPositions("exec") :
          calls[k].phase = "run" =>
              \E names \in Orders(ScalarVariables) :
                  calls[k].command = StrictCommand(names, DeclaredInstructions(calls[k].step))
    /\ (pc \in {"cleanup", "commit"} /\ Has(step_config, "RUN")) =>
          \E k \in Positions("exec", step_index) : calls[k].phase = "run" /\ calls[k].ok

\* a build has ended successfully whose RUN of two instructions was made while the variable
\* NOPE held a list
C24_Witness ==
    /\ pc = "done"
    /\ NOPE \in DOMAIN variables
    /\ variables[NOPE].t = "list"
    /\ \E k \in Positions("exec", 1) :
          calls[k].phase = "run" /\ Len(calls[k].instructions) = 2

(***************************************************************************)
(* Properties of the removal of the build context                          *)
(***************************************************************************)

\* the positions in calls of the removals of the build context made for step i
Cleanups(i) == {k \in Positions("exec", i) : calls[k].phase = "cleanup"}

\* the positions in calls of what step i did before the point of the removal
BeforeCleanup(i) ==
    {k \in StepCalls(i) : calls[k].phase \in {"create", "context", "files", "run"}}

\* the positions in calls of what step i did to commit its image
Commits(i) == {k \in StepCalls(i) : calls[k].phase = "commit"}

\* C25: a step removes the build context at most once, with rm -rf /tmp/build-context, only
\* when it declares BUILDCONTEXT and everything it did before succeeded, after its RUN and
\* before its commit; a step that declares BUILDCONTEXT and has reached its commit has removed
\* the build context successfully; and a removal that exits with a status that is not 0
\* fails the step with CommandExecutionError without a commit
C25_ContextRemoved ==
    \A i \in {i \in 1..step_index : i <= Len(Steps)} :
        /\ Cardinality(Cleanups(i)) <= 1
        /\ \A k \in Cleanups(i) :
              /\ Has(Declared(i), "BUILDCONTEXT")
              /\ calls[k].instructions
                    = <<(<<"r","m"," ","-","r","f"," ">> \o BUILD_CONTEXT_DST_PATH)>>
              /\ \A j \in BeforeCleanup(i) : calls[j].ok /\ j < k
              /\ Has(Declared(i), "RUN") =>
                    \E j \in Positions("exec", i) : calls[j].phase = "run" /\ j < k
              /\ \A j \in Commits(i) : k < j /\ calls[k].ok
              /\ (~calls[k].ok /\ i = step_index /\ pc = "finally") =>
                    error.kind = "CommandExecutionError"
              /\ (~calls[k].ok /\ StepOver(i)) => pc = "failed"
        /\ ((Commits(i) # {} \/ (i = step_index /\ pc = "commit"))
                /\ Has(Declared(i), "BUILDCONTEXT")) =>
              \E k \in Cleanups(i) : calls[k].ok

\* the removal of the build context of the first step failed and the build ended without a
\* commit
C25_Witness ==
    /\ pc = "failed"
    /\ step_index = 1
    /\ \E k \in Cleanups(1) : ~calls[k].ok
    /\ Commits(1) = {}

(***************************************************************************)
(* Properties of the ConsoleLogger                                         *)
(***************************************************************************)

\* the lines of a text: what stands between its new lines, a text that ends on a new line
\* having no line after it
RECURSIVE LinesFrom(_, _)
LinesFrom(text, line) ==
    IF text = <<>> THEN (IF line = <<>> THEN <<>> ELSE <<line>>)
    ELSE IF text[1] = "\n" THEN <<line>> \o LinesFrom(Tail(text), <<>>)
    ELSE LinesFrom(Tail(text), Append(line, text[1]))

\* all the chunks that were passed to the logger, one after the other
RECURSIVE PassedText(_)
PassedText(chunks) == IF chunks = <<>> THEN <<>> ELSE chunks[1] \o PassedText(Tail(chunks))

\* C26: when the stream has ended and the logger has been left, the lines it logged between
\* its header and its footer are, in order, exactly the lines of the chunks it was passed
\* taken together
C26_LinesOfStream ==
    pc = "console_exit" =>
        /\ Len(console.logged) >= 2
        /\ SubSeq(console.logged, 2, Len(console.logged) - 1)
              = LinesFrom(PassedText(console.passed), <<>>)

(***************************************************************************)
(* Properties of what the steps share                                      *)
(***************************************************************************)

\* C27: from the start of the loop over the steps on, no statement of _build_step changes
\* the variables or the evaluated configuration, the CONFIG of every step included: both are
\* after a step what they were before it
C27_PlanUnchanged ==
    [][(step_index >= 1 /\ pc # "prepare") =>
          (variables' = variables /\ config' = config)]_vars

(***************************************************************************)
(* Properties of the failure of a step                                     *)
(***************************************************************************)

\* the operations of a step that come before its commit
StepOperations == {"create", "context", "files", "run", "cleanup"}

\* C28: an image is committed for a step only after every call the step made to create its
\* container, copy its build context, copy its files, run its instructions and remove its
\* build context succeeded; and after a call of a step that failed the only call made is the
\* removal of the container of that step: no commit for the step, and no call for a later
\* step
C28_FailureEndsBuild ==
    /\ \A c \in AllPositions("commit") :
          \A j \in StepCalls(calls[c].step) :
              calls[j].phase \in StepOperations => (calls[j].ok /\ j < c)
    /\ \A k \in DOMAIN calls :
          (~calls[k].ok /\ calls[k].phase \in StepOperations \cup {"commit"}) =>
              /\ \A c \in Positions("commit", calls[k].step) : ~calls[c].ok
              /\ \A j \in DOMAIN calls :
                    j > k => /\ calls[j].op = "remove"
                             /\ calls[j].step = calls[k].step
                             /\ calls[j].container = ContainerOf(calls[k].step)
    /\ \A k \in DOMAIN calls : calls[k].step <= step_index
    /\ (pc \in {"finally", "failed"} /\ error # NoError /\ step_index >= 1
            /\ \A r \in AllPositions("remove") : calls[r].ok) =>
          \A c \in Positions("commit", step_index) : ~calls[c].ok

\* the RUN of the first of two steps failed: its container was removed and the build ended
\* without a commit and without a call for the second step
C28_Witness ==
    /\ pc = "failed"
    /\ step_index = 1
    /\ Len(Steps) = 2
    /\ \E k \in Positions("exec", 1) : calls[k].phase = "run" /\ ~calls[k].ok
    /\ Positions("remove", 1) # {}
    /\ StepCalls(2) = {}

(***************************************************************************)
(* Properties of the tag and of the command of the images                  *)
(***************************************************************************)

\* C29: when build() has ended with an error, whatever failed, the removal of the container
\* of the last step included, no image that the build committed has the tag
C29_TagOnlyOnSuccess ==
    pc = "failed" =>
        \A k \in AllPositions("commit") : calls[k].ok => calls[k].tag = <<>>

\* no step of the recipe declares CONFIG.CMD or CONFIG.ENTRYPOINT
NoStepDeclaresCommand ==
    \A i \in 1..Len(recipe.d["STEPS"].items) :
        Has(Declared(i), "CONFIG") =>
            /\ ~Has(Declared(i).d["CONFIG"], "CMD")
            /\ ~Has(Declared(i).d["CONFIG"], "ENTRYPOINT")

\* attrs["Config"] of the image that FROM names, as the daemon has it once the first
\* container was created from it
OriginalImage == daemon.images[NodeValue(config.d["FROM"]).s]

============================================================================
